---------------------------- MODULE Spec2Model ----------------------------
(***************************************************************************)
(* Model of mozilla::pkix name matching and name-constraint checking       *)
(* (lib/mozpkix/lib/pkixnames.cpp).                                        *)
(*                                                                         *)
(* An Input is a sequence of bytes (integers 0..255).  Enumerations of the *)
(* source are modelled by strings carrying the enumerator's name.          *)
(***************************************************************************)
EXTENDS Integers, Sequences, FiniteSets, TLC

(***************************************************************************)
(* Byte literals used by the source.                                       *)
(***************************************************************************)
ChStar == 42
ChHyphen == 45
ChDot == 46
Ch0 == 48
Ch9 == 57
ChColon == 58
ChUpperA == 65
ChUpperF == 70
ChUpperZ == 90
ChLowerA == 97
ChLowerF == 102
ChLowerZ == 122

MAX_LABEL_LENGTH == 63
MAX_DNSID_LENGTH == 253

IsDigit(b) == b >= Ch0 /\ b <= Ch9
IsLetter(b) == (b >= ChLowerA /\ b <= ChLowerZ) \/ (b >= ChUpperA /\ b <= ChUpperZ)

\* Reader::Peek(expectedByte) on the bytes of `input` left from position `pos`
\* (1-based index of the next unread byte).
Peek(input, pos, expectedByte) == pos <= Len(input) /\ input[pos] = expectedByte

AtEnd(input, pos) == pos > Len(input)

(***************************************************************************)
(* LocaleInsensitveToLower                                                 *)
(***************************************************************************)
LocaleInsensitveToLowerWrong(a) == a

LocaleInsensitveToLower(a) ==
  IF a >= ChUpperA /\ a <= ChUpperZ
  THEN (((a - ChUpperA) % 256) + ChLowerA) % 256
  ELSE a

(***************************************************************************)
(* StartsWithIDNALabel                                                     *)
(***************************************************************************)
IDN_ALABEL_PREFIX == <<120, 110, 45, 45>>

StartsWithIDNALabel(id) ==
  /\ Len(id) >= Len(IDN_ALABEL_PREFIX)
  /\ \A i \in 1..Len(IDN_ALABEL_PREFIX) : id[i] = IDN_ALABEL_PREFIX[i]

(***************************************************************************)
(* IsValidDNSID.  st holds the locals of the do/while loop over the bytes  *)
(* of the hostname.  IsValidDNSIDByte is one iteration of the loop,        *)
(* IsValidDNSIDBytes the iterations for the bytes at lo..hi in order (the  *)
(* range is halved so that the evaluation stays shallow for long names;    *)
(* an iteration that returned false ends the loop), and IsValidDNSIDLoop   *)
(* the whole loop from position pos.                                       *)
(***************************************************************************)
IsValidDNSIDByte(b, matchType, st) ==
  IF b = ChHyphen THEN
    IF st.labelLength = 0 THEN [st EXCEPT !.ok = FALSE]
    ELSE IF st.labelLength + 1 > MAX_LABEL_LENGTH THEN [st EXCEPT !.ok = FALSE]
    ELSE [st EXCEPT !.labelIsAllNumeric = FALSE,
                    !.labelEndsWithHyphen = TRUE,
                    !.labelLength = @ + 1,
                    !.isFirstByte = FALSE]
  ELSE IF IsDigit(b) THEN
    IF st.labelLength + 1 > MAX_LABEL_LENGTH THEN [st EXCEPT !.ok = FALSE]
    ELSE [st EXCEPT !.labelIsAllNumeric =
                        IF st.labelLength = 0 THEN TRUE ELSE @,
                    !.labelEndsWithHyphen = FALSE,
                    !.labelLength = @ + 1,
                    !.isFirstByte = FALSE]
  ELSE IF IsLetter(b) THEN
    IF st.labelLength + 1 > MAX_LABEL_LENGTH THEN [st EXCEPT !.ok = FALSE]
    ELSE [st EXCEPT !.labelIsAllNumeric = FALSE,
                    !.labelEndsWithHyphen = FALSE,
                    !.labelLength = @ + 1,
                    !.isFirstByte = FALSE]
  ELSE IF b = ChDot THEN
    IF st.labelLength = 0 /\
       (matchType # "NameConstraint" \/ ~st.isFirstByte)
    THEN [st EXCEPT !.ok = FALSE]
    ELSE IF st.labelEndsWithHyphen THEN [st EXCEPT !.ok = FALSE]
    ELSE [st EXCEPT !.dotCount = @ + 1, !.labelLength = 0,
                    !.isFirstByte = FALSE]
  ELSE [st EXCEPT !.ok = FALSE]            \* Invalid character.

RECURSIVE IsValidDNSIDBytes(_, _, _, _, _)
IsValidDNSIDBytes(hostname, lo, hi, matchType, st) ==
  IF ~st.ok THEN st
  ELSE IF lo = hi THEN IsValidDNSIDByte(hostname[lo], matchType, st)
  ELSE IsValidDNSIDBytes(hostname, ((lo + hi) \div 2) + 1, hi, matchType,
         IsValidDNSIDBytes(hostname, lo, (lo + hi) \div 2, matchType, st))

IsValidDNSIDLoop(hostname, pos, matchType, st) ==
  IF AtEnd(hostname, pos)
  THEN [st EXCEPT !.ok = FALSE]            \* input.Read(b) != Success
  ELSE IsValidDNSIDBytes(hostname, pos, Len(hostname), matchType, st)

\* As IsValidDNSIDEnd, but a last label of digits only is accepted.
IsValidDNSIDEndNumeric(hostname, matchType, isWildcard, st) ==
  IF ~st.ok THEN FALSE
  ELSE IF st.labelLength = 0 /\ matchType # "ReferenceID" THEN FALSE
  ELSE IF st.labelEndsWithHyphen THEN FALSE
  ELSE IF isWildcard /\
          (IF st.labelLength = 0 THEN st.dotCount ELSE st.dotCount + 1) < 3
       THEN FALSE
  ELSE IF isWildcard /\ StartsWithIDNALabel(hostname) THEN FALSE
  ELSE TRUE

\* The checks of IsValidDNSID after the loop; st holds the loop's locals.
IsValidDNSIDEnd(hostname, matchType, isWildcard, st) ==
  IF ~st.ok THEN FALSE
  ELSE IF st.labelLength = 0 /\ matchType # "ReferenceID" THEN FALSE
  ELSE IF st.labelEndsWithHyphen THEN FALSE
  ELSE IF st.labelIsAllNumeric THEN FALSE
  ELSE IF isWildcard /\
          (IF st.labelLength = 0 THEN st.dotCount ELSE st.dotCount + 1) < 3
       THEN FALSE
  ELSE IF isWildcard /\ StartsWithIDNALabel(hostname) THEN FALSE
  ELSE TRUE

\* IsValidDNSID from the wildcard test on.
IsValidDNSIDFrom(hostname, matchType, isWildcard) ==
  IF isWildcard /\ ~Peek(hostname, 2, ChDot) THEN FALSE
  ELSE IsValidDNSIDEnd(hostname, matchType, isWildcard,
         IsValidDNSIDLoop(hostname, IF isWildcard THEN 3 ELSE 1, matchType,
                          [ok |-> TRUE, dotCount |-> IF isWildcard THEN 1 ELSE 0,
                           labelLength |-> 0, labelIsAllNumeric |-> FALSE,
                           labelEndsWithHyphen |-> FALSE,
                           isFirstByte |-> ~isWildcard]))

IsValidDNSID(hostname, matchType) ==
  IF Len(hostname) > MAX_DNSID_LENGTH THEN FALSE
  ELSE IF matchType = "NameConstraint" /\ Len(hostname) = 0 THEN TRUE
  ELSE IsValidDNSIDFrom(hostname, matchType,
                        matchType = "PresentedID" /\ Peek(hostname, 1, ChStar))

IsValidReferenceDNSID(hostname) == IsValidDNSID(hostname, "ReferenceID")

\* As IsValidPresentedDNSID, but a presented ID of a single label is rejected.
IsValidPresentedDNSIDTwoLabels(hostname) ==
  IsValidDNSID(hostname, "PresentedID") /\
  \E i \in 1..Len(hostname) : hostname[i] = ChDot

IsValidPresentedDNSID(hostname) == IsValidDNSID(hostname, "PresentedID")

(***************************************************************************)
(* PresentedDNSIDMatchesReferenceDNSID.  p and r are the positions of the  *)
(* `presented` and `reference` readers (1-based index of the next byte).   *)
(***************************************************************************)

\* The wildcard loop: do { reference.Read() } while (!reference.Peek('.')).
\* Yields the reference position after the loop, or 0 when a Read failed.
RECURSIVE SkipWildcardLabel(_, _)
SkipWildcardLabel(referenceDNSID, r) ==
  IF AtEnd(referenceDNSID, r) THEN 0
  ELSE IF Peek(referenceDNSID, r + 1, ChDot) THEN r + 1
  ELSE SkipWildcardLabel(referenceDNSID, r + 1)

\* The for (;;) loop comparing the remaining bytes pairwise.  Yields the
\* reference position after the loop, or 0 when the loop returned false.
RECURSIVE CompareLoop(_, _, _, _)
CompareLoop(presentedDNSID, p, referenceDNSID, r) ==
  IF AtEnd(presentedDNSID, p) THEN 0
  ELSE IF AtEnd(referenceDNSID, r) THEN 0
  ELSE IF LocaleInsensitveToLower(presentedDNSID[p]) #
          LocaleInsensitveToLower(referenceDNSID[r]) THEN 0
  ELSE IF AtEnd(presentedDNSID, p + 1)
       THEN IF presentedDNSID[p] = ChDot THEN 0 ELSE r + 1
  ELSE CompareLoop(presentedDNSID, p + 1, referenceDNSID, r + 1)

\* The end of PresentedDNSIDMatchesReferenceDNSID: r1 is the position of the
\* reference reader after the comparison loop, 0 when the loop returned false.
MatchAfterCompare(referenceDNSIDMatchType, referenceDNSID, r1) ==
  IF r1 = 0 THEN FALSE
  ELSE IF AtEnd(referenceDNSID, r1) THEN TRUE
  ELSE IF referenceDNSIDMatchType # "NameConstraint"
       THEN referenceDNSID[r1] = ChDot /\ AtEnd(referenceDNSID, r1 + 1)
  ELSE FALSE

\* The comparison loop and what follows it: p0 and r0 are the positions of the
\* two readers after the wildcard label, r0 = 0 when a Read failed there.
MatchAfterWildcard(presentedDNSID, p0, referenceDNSIDMatchType, referenceDNSID, r0) ==
  MatchAfterCompare(referenceDNSIDMatchType, referenceDNSID,
                    IF r0 = 0 THEN 0
                    ELSE CompareLoop(presentedDNSID, p0, referenceDNSID, r0))

\* As MatchFrom, but the wildcard label also consumes a second label of the
\* reference when there is one.
MatchFromSpanning(presentedDNSID, p, referenceDNSIDMatchType, referenceDNSID) ==
  LET one == SkipWildcardLabel(referenceDNSID, 1)
      two == IF one = 0 THEN 0 ELSE SkipWildcardLabel(referenceDNSID, one)
  IN IF Peek(presentedDNSID, p, ChStar)
     THEN MatchAfterWildcard(presentedDNSID, p + 1, referenceDNSIDMatchType,
                             referenceDNSID, IF two # 0 THEN two ELSE one)
     ELSE MatchAfterWildcard(presentedDNSID, p, referenceDNSIDMatchType,
                             referenceDNSID, 1)

\* As MatchFrom, but the reference must end where the presented ID ends.
MatchFromNoAbsolute(presentedDNSID, p, referenceDNSIDMatchType, referenceDNSID) ==
  LET r0 == IF Peek(presentedDNSID, p, ChStar)
            THEN SkipWildcardLabel(referenceDNSID, 1)
            ELSE 1
      p0 == IF Peek(presentedDNSID, p, ChStar) THEN p + 1 ELSE p
      r1 == IF r0 = 0 THEN 0
            ELSE CompareLoop(presentedDNSID, p0, referenceDNSID, r0)
  IN r1 # 0 /\ AtEnd(referenceDNSID, r1)

\* The part of the function after the switch on the match type, entered with
\* the presented reader at position p and the reference reader at position 1.
MatchFrom(presentedDNSID, p, referenceDNSIDMatchType, referenceDNSID) ==
  IF Peek(presentedDNSID, p, ChStar)
  THEN MatchAfterWildcard(presentedDNSID, p + 1, referenceDNSIDMatchType,
                          referenceDNSID, SkipWildcardLabel(referenceDNSID, 1))
  ELSE MatchAfterWildcard(presentedDNSID, p, referenceDNSIDMatchType,
                          referenceDNSID, 1)

\* As PresentedDNSIDMatchesReferenceDNSID, but a name constraint matches only
\* the presented IDs that are longer than it.
PresentedDNSIDMatchesReferenceDNSIDSubdomainsOnly(presentedDNSID, referenceDNSIDMatchType, referenceDNSID) ==
  IF ~IsValidPresentedDNSID(presentedDNSID) THEN FALSE
  ELSE IF ~IsValidDNSID(referenceDNSID, referenceDNSIDMatchType) THEN FALSE
  ELSE IF referenceDNSIDMatchType = "ReferenceID"
       THEN MatchFrom(presentedDNSID, 1, referenceDNSIDMatchType, referenceDNSID)
  ELSE IF referenceDNSIDMatchType = "NameConstraint"
       THEN IF Len(presentedDNSID) > Len(referenceDNSID)
            THEN IF Len(referenceDNSID) = 0 THEN TRUE
                 ELSE IF Peek(referenceDNSID, 1, ChDot)
                      THEN MatchFrom(presentedDNSID,
                                     Len(presentedDNSID) - Len(referenceDNSID) + 1,
                                     referenceDNSIDMatchType, referenceDNSID)
                 ELSE IF presentedDNSID[Len(presentedDNSID) - Len(referenceDNSID)]
                           # ChDot
                      THEN FALSE
                 ELSE MatchFrom(presentedDNSID,
                                Len(presentedDNSID) - Len(referenceDNSID) + 1,
                                referenceDNSIDMatchType, referenceDNSID)
            ELSE FALSE
  ELSE FALSE

\* As PresentedDNSIDMatchesReferenceDNSID, but for a name constraint without
\* a leading dot the byte before the compared suffix is not required to be '.'.
PresentedDNSIDMatchesReferenceDNSIDNoBoundary(presentedDNSID, referenceDNSIDMatchType, referenceDNSID) ==
  IF ~IsValidPresentedDNSID(presentedDNSID) THEN FALSE
  ELSE IF ~IsValidDNSID(referenceDNSID, referenceDNSIDMatchType) THEN FALSE
  ELSE IF referenceDNSIDMatchType = "ReferenceID"
       THEN MatchFrom(presentedDNSID, 1, referenceDNSIDMatchType, referenceDNSID)
  ELSE IF referenceDNSIDMatchType = "NameConstraint"
       THEN IF Len(presentedDNSID) > Len(referenceDNSID)
            THEN IF Len(referenceDNSID) = 0 THEN TRUE
                 ELSE MatchFrom(presentedDNSID,
                                Len(presentedDNSID) - Len(referenceDNSID) + 1,
                                referenceDNSIDMatchType, referenceDNSID)
            ELSE MatchFrom(presentedDNSID, 1, referenceDNSIDMatchType,
                           referenceDNSID)
  ELSE FALSE

PresentedDNSIDMatchesReferenceDNSID(presentedDNSID, referenceDNSIDMatchType, referenceDNSID) ==
  IF ~IsValidPresentedDNSID(presentedDNSID) THEN FALSE
  ELSE IF ~IsValidDNSID(referenceDNSID, referenceDNSIDMatchType) THEN FALSE
  ELSE IF referenceDNSIDMatchType = "ReferenceID"
       THEN MatchFrom(presentedDNSID, 1, referenceDNSIDMatchType, referenceDNSID)
  ELSE IF referenceDNSIDMatchType = "NameConstraint"
       THEN IF Len(presentedDNSID) > Len(referenceDNSID)
            THEN IF Len(referenceDNSID) = 0 THEN TRUE
                 ELSE IF Peek(referenceDNSID, 1, ChDot)
                      THEN MatchFrom(presentedDNSID,
                                     Len(presentedDNSID) - Len(referenceDNSID) + 1,
                                     referenceDNSIDMatchType, referenceDNSID)
                 ELSE IF presentedDNSID[Len(presentedDNSID) - Len(referenceDNSID)]
                           # ChDot
                      THEN FALSE
                 ELSE MatchFrom(presentedDNSID,
                                Len(presentedDNSID) - Len(referenceDNSID) + 1,
                                referenceDNSIDMatchType, referenceDNSID)
            ELSE MatchFrom(presentedDNSID, 1, referenceDNSIDMatchType,
                           referenceDNSID)
  ELSE FALSE    \* ValidDNSIDMatchType::PresentedID: assert(false)

(***************************************************************************)
(* ReadIPv4AddressComponent and ParseIPv4Address.  A failed parse is       *)
(* [ok |-> FALSE]; a successful one carries the reader position after the  *)
(* component and the component's value.                                    *)
(***************************************************************************)
RECURSIVE ReadIPv4AddressComponentLoop(_, _, _, _, _)
ReadIPv4AddressComponentLoop(input, pos, lastComponent, length, value) ==
  IF AtEnd(input, pos) /\ lastComponent
  THEN [ok |-> length # 0, pos |-> pos, value |-> value]
  ELSE IF AtEnd(input, pos) THEN [ok |-> FALSE, pos |-> pos, value |-> value]
  ELSE
    LET b == input[pos]
    IN IF IsDigit(b) THEN
         IF value = 0 /\ length > 0
         THEN [ok |-> FALSE, pos |-> pos, value |-> value]
         ELSE IF (value * 10) + (b - Ch0) > 255
         THEN [ok |-> FALSE, pos |-> pos, value |-> value]
         ELSE ReadIPv4AddressComponentLoop(input, pos + 1, lastComponent,
                                           length + 1, (value * 10) + (b - Ch0))
       ELSE IF ~lastComponent /\ b = ChDot
       THEN [ok |-> length # 0, pos |-> pos + 1, value |-> value]
       ELSE [ok |-> FALSE, pos |-> pos, value |-> value]

ReadIPv4AddressComponent(input, pos, lastComponent) ==
  ReadIPv4AddressComponentLoop(input, pos, lastComponent, 0, 0)

\* As ParseIPv4Address, but the fourth component is read like the first three.
ParseIPv4AddressNotLast(hostname) ==
  LET c0 == ReadIPv4AddressComponent(hostname, 1, FALSE)
      c1 == ReadIPv4AddressComponent(hostname, c0.pos, FALSE)
      c2 == ReadIPv4AddressComponent(hostname, c1.pos, FALSE)
      c3 == ReadIPv4AddressComponent(hostname, c2.pos, FALSE)
  IN IF c0.ok /\ c1.ok /\ c2.ok /\ c3.ok
     THEN [ok |-> TRUE, out |-> <<c0.value, c1.value, c2.value, c3.value>>]
     ELSE [ok |-> FALSE, out |-> <<>>]

ParseIPv4Address(hostname) ==
  LET c0 == ReadIPv4AddressComponent(hostname, 1, FALSE)
      c1 == ReadIPv4AddressComponent(hostname, c0.pos, FALSE)
      c2 == ReadIPv4AddressComponent(hostname, c1.pos, FALSE)
      c3 == ReadIPv4AddressComponent(hostname, c2.pos, TRUE)
  IN IF c0.ok /\ c1.ok /\ c2.ok /\ c3.ok
     THEN [ok |-> TRUE, out |-> <<c0.value, c1.value, c2.value, c3.value>>]
     ELSE [ok |-> FALSE, out |-> <<>>]

(***************************************************************************)
(* FinishIPv6Address and ParseIPv6Address.  `out` is the 16-byte buffer;   *)
(* bytes never written are 0 in the model and are never read on success.   *)
(***************************************************************************)
\* As FinishIPv6Address, but the components after the contraction stay
\* where they were written.
FinishIPv6AddressNoShift(address, numComponents, contractionIndex) ==
  IF ~(numComponents >= 0 /\ numComponents <= 8 /\ contractionIndex >= -1 /\
       contractionIndex <= 8 /\ contractionIndex <= numComponents)
  THEN [ok |-> FALSE, out |-> address]
  ELSE IF contractionIndex = -1
  THEN [ok |-> numComponents = 8, out |-> address]
  ELSE IF numComponents >= 8 THEN [ok |-> FALSE, out |-> address]
  ELSE [ok |-> TRUE, out |-> address]

FinishIPv6Address(address, numComponents, contractionIndex) ==
  IF ~(numComponents >= 0 /\ numComponents <= 8 /\ contractionIndex >= -1 /\
       contractionIndex <= 8 /\ contractionIndex <= numComponents)
  THEN [ok |-> FALSE, out |-> address]
  ELSE IF contractionIndex = -1
  THEN [ok |-> numComponents = 8, out |-> address]
  ELSE IF numComponents >= 8 THEN [ok |-> FALSE, out |-> address]
  ELSE
    LET componentsToMove == numComponents - contractionIndex
        \* memmove(address + 2*(8 - componentsToMove),
        \*         address + 2*contractionIndex, componentsToMove*2)
        moved == [i \in 1..16 |->
                    IF i > 2 * (8 - componentsToMove)
                    THEN address[i - 2 * (8 - componentsToMove)
                                   + 2 * contractionIndex]
                    ELSE address[i]]
        \* memset(address + 2*contractionIndex, 0, (8 - numComponents)*2)
        filled == [i \in 1..16 |->
                    IF i > 2 * contractionIndex /\
                       i <= 2 * contractionIndex + (8 - numComponents) * 2
                    THEN 0
                    ELSE moved[i]]
    IN [ok |-> TRUE, out |-> filled]

IsHexDigit(b) ==
  IsDigit(b) \/ (b >= ChLowerA /\ b <= ChLowerF) \/ (b >= ChUpperA /\ b <= ChUpperF)

HexValue(b) ==
  IF IsDigit(b) THEN b - Ch0
  ELSE IF b >= ChLowerA /\ b <= ChLowerF THEN b - ChLowerA + 10
  ELSE b - ChUpperA + 10

SubSeqFrom(input, pos) == SubSeq(input, pos, Len(input))

\* The inner while loop reading one component that starts at startOfComponent.
\* kind is "component" (loop left normally), "ipv4" (a '.' was met with
\* currentComponentIndex <= 6) or "fail".
RECURSIVE ReadIPv6Component(_, _, _, _, _)
ReadIPv6Component(input, pos, currentComponentIndex, componentLength, componentValue) ==
  IF AtEnd(input, pos) \/ Peek(input, pos, ChColon)
  THEN [kind |-> "component", pos |-> pos, length |-> componentLength,
        value |-> componentValue]
  ELSE
    LET b == input[pos]
    IN IF IsHexDigit(b) THEN
         IF componentLength >= 4
         THEN [kind |-> "fail", pos |-> pos, length |-> componentLength,
               value |-> componentValue]
         ELSE ReadIPv6Component(input, pos + 1, currentComponentIndex,
                                componentLength + 1,
                                ((componentValue * 16) + HexValue(b)) % 65536)
       ELSE IF b = ChDot /\ currentComponentIndex <= 6
       THEN [kind |-> "ipv4", pos |-> pos, length |-> componentLength,
             value |-> componentValue]
       ELSE [kind |-> "fail", pos |-> pos, length |-> componentLength,
             value |-> componentValue]

\* The outer for (;;) loop.
RECURSIVE ParseIPv6AddressLoop(_, _, _, _, _)
ParseIPv6AddressLoop(input, pos, currentComponentIndex, contractionIndex, out) ==
  LET c == ReadIPv6Component(input, pos, currentComponentIndex, 0, 0)
  IN IF c.kind = "fail" THEN [ok |-> FALSE, out |-> out]
     ELSE IF c.kind = "ipv4" THEN
       LET ipv4 == ParseIPv4Address(SubSeqFrom(input, pos))
           withIPv4 == [i \in 1..16 |->
                          IF i > 2 * currentComponentIndex /\
                             i <= 2 * currentComponentIndex + 4
                          THEN ipv4.out[i - 2 * currentComponentIndex]
                          ELSE out[i]]
       IN IF ~ipv4.ok THEN [ok |-> FALSE, out |-> out]
          ELSE FinishIPv6Address(withIPv4, currentComponentIndex + 2,
                                 contractionIndex)
     ELSE IF currentComponentIndex >= 8 THEN [ok |-> FALSE, out |-> out]
     ELSE IF c.length = 0 THEN
       IF AtEnd(input, c.pos) /\ currentComponentIndex = contractionIndex
       THEN IF contractionIndex = 0 THEN [ok |-> FALSE, out |-> out]
            ELSE FinishIPv6Address(out, currentComponentIndex, contractionIndex)
       ELSE [ok |-> FALSE, out |-> out]
     ELSE
       LET stored == [out EXCEPT ![2 * currentComponentIndex + 1] = c.value \div 256,
                                 ![2 * currentComponentIndex + 2] = c.value % 256]
           idx == currentComponentIndex + 1
       IN IF AtEnd(input, c.pos)
          THEN FinishIPv6Address(stored, idx, contractionIndex)
          \* the next byte is ':' (the inner loop stopped on it); read it
          ELSE IF Peek(input, c.pos + 1, ChColon) THEN
            IF contractionIndex # -1 THEN [ok |-> FALSE, out |-> stored]
            ELSE IF AtEnd(input, c.pos + 2)
                 THEN FinishIPv6Address(stored, idx, idx)
                 ELSE ParseIPv6AddressLoop(input, c.pos + 2, idx, idx, stored)
          ELSE ParseIPv6AddressLoop(input, c.pos + 1, idx, contractionIndex,
                                    stored)

ParseIPv6Address(hostname) ==
  LET zero == [i \in 1..16 |-> 0]
  IN IF Peek(hostname, 1, ChColon)
     THEN IF ~Peek(hostname, 2, ChColon) THEN [ok |-> FALSE, out |-> zero]
          ELSE ParseIPv6AddressLoop(hostname, 3, 0, 0, zero)
     ELSE ParseIPv6AddressLoop(hostname, 1, 0, -1, zero)

\* What ParseIPv6Address does to `out`, in order: a "store" of a hex component
\* at a component index, the "ipv4" tail parsed into the four bytes at a
\* component index, and a "finish", the call of FinishIPv6Address.
IPv6Store(currentComponentIndex) ==
  [kind |-> "store", componentIndex |-> currentComponentIndex,
   numComponents |-> 0, contractionIndex |-> 0]

IPv6Finish(numComponents, contractionIndex) ==
  [kind |-> "finish", componentIndex |-> 0,
   numComponents |-> numComponents, contractionIndex |-> contractionIndex]

\* The IPv4 branch of the inner loop, up to the return.
IPv6Tail(input, pos, currentComponentIndex, contractionIndex) ==
  <<[kind |-> "ipv4", componentIndex |-> currentComponentIndex,
     numComponents |-> 0, contractionIndex |-> 0]>> \o
  (IF ParseIPv4Address(SubSeqFrom(input, pos)).ok
   THEN <<IPv6Finish(currentComponentIndex + 2, contractionIndex)>>
   ELSE <<>>)

\* As ParseIPv6AddressAccesses, without the test for too many components.
RECURSIVE ParseIPv6AddressAccessesUnchecked(_, _, _, _, _)
ParseIPv6AddressAccessesUnchecked(input, pos, currentComponentIndex, contractionIndex, c) ==
  IF c.kind = "fail" THEN <<>>
  ELSE IF c.kind = "ipv4"
  THEN IPv6Tail(input, pos, currentComponentIndex, contractionIndex)
  ELSE IF c.length = 0 THEN
    IF AtEnd(input, c.pos) /\ currentComponentIndex = contractionIndex /\
       contractionIndex # 0
    THEN <<IPv6Finish(currentComponentIndex, contractionIndex)>>
    ELSE <<>>
  ELSE <<IPv6Store(currentComponentIndex)>> \o
    (IF AtEnd(input, c.pos)
     THEN <<IPv6Finish(currentComponentIndex + 1, contractionIndex)>>
     ELSE IF Peek(input, c.pos + 1, ChColon) THEN
       IF contractionIndex # -1 THEN <<>>
       ELSE IF AtEnd(input, c.pos + 2)
       THEN <<IPv6Finish(currentComponentIndex + 1, currentComponentIndex + 1)>>
       ELSE ParseIPv6AddressAccessesUnchecked(input, c.pos + 2,
              currentComponentIndex + 1, currentComponentIndex + 1,
              ReadIPv6Component(input, c.pos + 2, currentComponentIndex + 1, 0, 0))
     ELSE ParseIPv6AddressAccessesUnchecked(input, c.pos + 1,
            currentComponentIndex + 1, contractionIndex,
            ReadIPv6Component(input, c.pos + 1, currentComponentIndex + 1, 0, 0)))

\* The outer for (;;) loop, entered at pos; c is what the inner loop read.
RECURSIVE ParseIPv6AddressAccesses(_, _, _, _, _)
ParseIPv6AddressAccesses(input, pos, currentComponentIndex, contractionIndex, c) ==
  IF c.kind = "fail" THEN <<>>
  ELSE IF c.kind = "ipv4"
  THEN IPv6Tail(input, pos, currentComponentIndex, contractionIndex)
  ELSE IF currentComponentIndex >= 8 THEN <<>>
  ELSE IF c.length = 0 THEN
    IF AtEnd(input, c.pos) /\ currentComponentIndex = contractionIndex /\
       contractionIndex # 0
    THEN <<IPv6Finish(currentComponentIndex, contractionIndex)>>
    ELSE <<>>
  ELSE <<IPv6Store(currentComponentIndex)>> \o
    (IF AtEnd(input, c.pos)
     THEN <<IPv6Finish(currentComponentIndex + 1, contractionIndex)>>
     ELSE IF Peek(input, c.pos + 1, ChColon) THEN
       IF contractionIndex # -1 THEN <<>>
       ELSE IF AtEnd(input, c.pos + 2)
       THEN <<IPv6Finish(currentComponentIndex + 1, currentComponentIndex + 1)>>
       ELSE ParseIPv6AddressAccesses(input, c.pos + 2,
              currentComponentIndex + 1, currentComponentIndex + 1,
              ReadIPv6Component(input, c.pos + 2, currentComponentIndex + 1, 0, 0))
     ELSE ParseIPv6AddressAccesses(input, c.pos + 1,
            currentComponentIndex + 1, contractionIndex,
            ReadIPv6Component(input, c.pos + 1, currentComponentIndex + 1, 0, 0)))

\* The accesses of one call of ParseIPv6Address.
ParseIPv6AddressTrace(hostname) ==
  IF Peek(hostname, 1, ChColon)
  THEN IF ~Peek(hostname, 2, ChColon) THEN <<>>
       ELSE ParseIPv6AddressAccesses(hostname, 3, 0, 0,
              ReadIPv6Component(hostname, 3, 0, 0, 0))
  ELSE ParseIPv6AddressAccesses(hostname, 1, 0, -1,
         ReadIPv6Component(hostname, 1, 0, 0, 0))

(***************************************************************************)
(* Bitwise operations on bytes (the ^ and & of the source on uint8_t).     *)
(***************************************************************************)
RECURSIVE BitXor(_, _)
BitXor(x, y) ==
  IF x = 0 THEN y
  ELSE IF y = 0 THEN x
  ELSE ((x + y) % 2) + 2 * BitXor(x \div 2, y \div 2)

RECURSIVE BitAnd(_, _)
BitAnd(x, y) ==
  IF x = 0 \/ y = 0 THEN 0
  ELSE ((x % 2) * (y % 2)) + 2 * BitAnd(x \div 2, y \div 2)

(***************************************************************************)
(* Results of the source's Result type and InputsAreEqual.                 *)
(***************************************************************************)
Success == "Success"
ERROR_BAD_DER == "ERROR_BAD_DER"
ERROR_BAD_CERT_DOMAIN == "ERROR_BAD_CERT_DOMAIN"
ERROR_CERT_NOT_IN_NAME_SPACE == "ERROR_CERT_NOT_IN_NAME_SPACE"
FATAL_ERROR_LIBRARY_FAILURE == "FATAL_ERROR_LIBRARY_FAILURE"
FATAL_ERROR_INVALID_ARGS == "FATAL_ERROR_INVALID_ARGS"

\* `rv = ...; if (rv != Success) { return rv; }` followed by `rest`.
Try(rv, rest) == IF rv # Success THEN rv ELSE rest

InputsAreEqualPrefix(a, b) ==
  \/ (Len(a) <= Len(b) /\ a = SubSeq(b, 1, Len(a)))
  \/ (Len(b) <= Len(a) /\ b = SubSeq(a, 1, Len(b)))

InputsAreEqual(a, b) == a = b

(***************************************************************************)
(* MatchPresentedIPAddressWithConstraint.  Yields [rv, foundMatch].        *)
(***************************************************************************)
\* The do/while loop over the bytes of the presented address.
RECURSIVE IPAddressMaskLoop(_, _, _, _)
IPAddressMaskLoop(presentedID, constraintAddress, constraintMask, i) ==
  LET foundMatch ==
        BitAnd(BitXor(presentedID[i], constraintAddress[i]), constraintMask[i]) = 0
  IN IF foundMatch /\ ~AtEnd(presentedID, i + 1)
     THEN IPAddressMaskLoop(presentedID, constraintAddress, constraintMask, i + 1)
     ELSE foundMatch

\* As MatchPresentedIPAddressWithConstraint, but the mask is not applied.
MatchPresentedIPAddressWithConstraintNoMask(presentedID, iPAddressConstraint) ==
  IF Len(presentedID) # 4 /\ Len(presentedID) # 16
  THEN [rv |-> ERROR_BAD_DER, foundMatch |-> FALSE]
  ELSE IF Len(iPAddressConstraint) # 8 /\ Len(iPAddressConstraint) # 32
  THEN [rv |-> ERROR_BAD_DER, foundMatch |-> FALSE]
  ELSE IF Len(presentedID) * 2 # Len(iPAddressConstraint)
  THEN [rv |-> Success, foundMatch |-> FALSE]
  ELSE [rv |-> Success,
        foundMatch |-> presentedID =
                         SubSeq(iPAddressConstraint, 1, Len(presentedID))]

MatchPresentedIPAddressWithConstraint(presentedID, iPAddressConstraint) ==
  IF Len(presentedID) # 4 /\ Len(presentedID) # 16
  THEN [rv |-> ERROR_BAD_DER, foundMatch |-> FALSE]
  ELSE IF Len(iPAddressConstraint) # 8 /\ Len(iPAddressConstraint) # 32
  THEN [rv |-> ERROR_BAD_DER, foundMatch |-> FALSE]
  ELSE IF Len(presentedID) * 2 # Len(iPAddressConstraint)
  THEN [rv |-> Success, foundMatch |-> FALSE]
  ELSE
    LET half == Len(iPAddressConstraint) \div 2
        constraintAddress == SubSeq(iPAddressConstraint, 1, half)
        constraintMask == SubSeq(iPAddressConstraint, half + 1, 2 * half)
    IN [rv |-> Success,
        foundMatch |-> IPAddressMaskLoop(presentedID, constraintAddress,
                                         constraintMask, 1)]

(***************************************************************************)
(* MatchPresentedDirectoryNameWithConstraint.  A Name is the sequence of   *)
(* its RDNs, an RDN the sequence of its AVAs; two RDNs have equal encoded  *)
(* values exactly when they are equal as sequences.  Yields [rv, matches]. *)
(***************************************************************************)
RECURSIVE DirectoryNamePrefixLoop(_, _, _)
DirectoryNamePrefixLoop(constraintRDNs, presentedRDNs, i) ==
  IF AtEnd(constraintRDNs, i) THEN TRUE
  ELSE IF AtEnd(presentedRDNs, i) THEN FALSE
  ELSE IF ~InputsAreEqual(constraintRDNs[i], presentedRDNs[i]) THEN FALSE
  ELSE DirectoryNamePrefixLoop(constraintRDNs, presentedRDNs, i + 1)

\* As MatchPresentedDirectoryNameWithConstraint, but an excluded constraint is
\* matched as a prefix of the presented name, like a permitted one.
MatchPresentedDirectoryNameWithConstraintPrefix(subtreesType, presentedID, directoryNameConstraint) ==
  [rv |-> Success,
   matches |-> DirectoryNamePrefixLoop(directoryNameConstraint, presentedID, 1)]

\* As MatchPresentedDirectoryNameWithConstraint, but a permitted constraint
\* matches only the name that is equal to it.
MatchPresentedDirectoryNameWithConstraintEqual(subtreesType, presentedID, directoryNameConstraint) ==
  IF subtreesType = "permittedSubtrees"
  THEN [rv |-> Success,
        matches |-> InputsAreEqual(directoryNameConstraint, presentedID)]
  ELSE IF subtreesType = "excludedSubtrees"
  THEN IF Len(directoryNameConstraint) # 0 \/ Len(presentedID) # 0
       THEN [rv |-> ERROR_CERT_NOT_IN_NAME_SPACE, matches |-> FALSE]
       ELSE [rv |-> Success, matches |-> TRUE]
  ELSE [rv |-> FATAL_ERROR_INVALID_ARGS, matches |-> FALSE]

MatchPresentedDirectoryNameWithConstraint(subtreesType, presentedID, directoryNameConstraint) ==
  IF subtreesType = "permittedSubtrees"
  THEN [rv |-> Success,
        matches |-> DirectoryNamePrefixLoop(directoryNameConstraint,
                                            presentedID, 1)]
  ELSE IF subtreesType = "excludedSubtrees"
  THEN IF Len(directoryNameConstraint) # 0 \/ Len(presentedID) # 0
       THEN [rv |-> ERROR_CERT_NOT_IN_NAME_SPACE, matches |-> FALSE]
       ELSE [rv |-> Success, matches |-> TRUE]
  ELSE [rv |-> FATAL_ERROR_INVALID_ARGS, matches |-> FALSE]

(***************************************************************************)
(* GeneralName.  A GeneralName is [tag, value]; ReadGeneralName accepts    *)
(* the nine tags of the CHOICE and fails with ERROR_BAD_DER on any other.  *)
(***************************************************************************)
GeneralNameTypes ==
  {"otherName", "rfc822Name", "dNSName", "x400Address", "directoryName",
   "ediPartyName", "uniformResourceIdentifier", "iPAddress", "registeredID"}

ReadGeneralNameAnyTag(name) ==
  [rv |-> Success, generalNameType |-> name.tag, value |-> name.value]

ReadGeneralName(name) ==
  IF name.tag \in GeneralNameTypes
  THEN [rv |-> Success, generalNameType |-> name.tag, value |-> name.value]
  ELSE [rv |-> ERROR_BAD_DER, generalNameType |-> name.tag, value |-> name.value]

(***************************************************************************)
(* CheckPresentedIDConformsToNameConstraintsSubtrees.  `subtrees` is the   *)
(* list of GeneralSubtree entries [base, hasMinMax] of one subtrees field; *)
(* the operator is applied only when the field is present.                 *)
(***************************************************************************)
\* The first switch of the loop body, on a constraint `base` of the presented
\* ID's type.  Yields [rv, matches]; rv # Success is an early return.
DNSNameConstraintResult(matches, base) ==
  [rv |-> IF ~matches /\ ~IsValidDNSID(base, "NameConstraint")
          THEN ERROR_CERT_NOT_IN_NAME_SPACE ELSE Success,
   matches |-> matches]

IPAddressConstraintResult(ip) == [rv |-> ip.rv, matches |-> ip.foundMatch]

\* As MatchPresentedIDWithConstraint, but a constraint of a type without a
\* matcher is a constraint that does not match.
MatchPresentedIDWithConstraintLenient(presentedIDType, presentedID, subtreesType, base) ==
  IF presentedIDType = "dNSName"
  THEN DNSNameConstraintResult(
         PresentedDNSIDMatchesReferenceDNSID(presentedID, "NameConstraint", base),
         base)
  ELSE IF presentedIDType = "iPAddress"
  THEN IPAddressConstraintResult(
         MatchPresentedIPAddressWithConstraint(presentedID, base))
  ELSE IF presentedIDType = "directoryName"
  THEN MatchPresentedDirectoryNameWithConstraint(subtreesType, presentedID, base)
  ELSE IF presentedIDType = "rfc822Name"
  THEN [rv |-> FATAL_ERROR_LIBRARY_FAILURE, matches |-> FALSE]
  ELSE [rv |-> Success, matches |-> FALSE]

\* As MatchPresentedIDWithConstraint, but rfc822Name is handled like the types
\* that are rejected.
MatchPresentedIDWithConstraintNoFatal(presentedIDType, presentedID, subtreesType, base) ==
  IF presentedIDType = "dNSName"
  THEN DNSNameConstraintResult(
         PresentedDNSIDMatchesReferenceDNSID(presentedID, "NameConstraint", base),
         base)
  ELSE IF presentedIDType = "iPAddress"
  THEN IPAddressConstraintResult(
         MatchPresentedIPAddressWithConstraint(presentedID, base))
  ELSE IF presentedIDType = "directoryName"
  THEN MatchPresentedDirectoryNameWithConstraint(subtreesType, presentedID, base)
  ELSE [rv |-> ERROR_CERT_NOT_IN_NAME_SPACE, matches |-> FALSE]

MatchPresentedIDWithConstraint(presentedIDType, presentedID, subtreesType, base) ==
  IF presentedIDType = "dNSName"
  THEN DNSNameConstraintResult(
         PresentedDNSIDMatchesReferenceDNSID(presentedID, "NameConstraint", base),
         base)
  ELSE IF presentedIDType = "iPAddress"
  THEN IPAddressConstraintResult(
         MatchPresentedIPAddressWithConstraint(presentedID, base))
  ELSE IF presentedIDType = "directoryName"
  THEN MatchPresentedDirectoryNameWithConstraint(subtreesType, presentedID, base)
  ELSE IF presentedIDType = "rfc822Name"
  THEN [rv |-> FATAL_ERROR_LIBRARY_FAILURE, matches |-> FALSE]
  ELSE IF presentedIDType \in GeneralNameTypes
  THEN [rv |-> ERROR_CERT_NOT_IN_NAME_SPACE, matches |-> FALSE]
  ELSE [rv |-> FATAL_ERROR_LIBRARY_FAILURE, matches |-> FALSE]

RECURSIVE SubtreesLoop(_, _, _, _, _, _, _)
\* As SubtreesNext, but one permitted entry that does not match is a failure
\* even when another one matches.
SubtreesNextAllMustMatch(presentedIDType, presentedID, subtrees, subtreesType, i, hasPermittedSubtreesMatch, hasPermittedSubtreesMismatch) ==
  IF AtEnd(subtrees, i + 1)
  THEN IF hasPermittedSubtreesMismatch
       THEN ERROR_CERT_NOT_IN_NAME_SPACE
       ELSE Success
  ELSE SubtreesLoop(presentedIDType, presentedID, subtrees, subtreesType,
                    i + 1, hasPermittedSubtreesMatch, hasPermittedSubtreesMismatch)

\* The loop condition and the checks after the loop.
SubtreesNext(presentedIDType, presentedID, subtrees, subtreesType, i, hasPermittedSubtreesMatch, hasPermittedSubtreesMismatch) ==
  IF AtEnd(subtrees, i + 1)
  THEN IF hasPermittedSubtreesMismatch /\ ~hasPermittedSubtreesMatch
       THEN ERROR_CERT_NOT_IN_NAME_SPACE
       ELSE Success
  ELSE SubtreesLoop(presentedIDType, presentedID, subtrees, subtreesType,
                    i + 1, hasPermittedSubtreesMatch, hasPermittedSubtreesMismatch)

\* As SubtreeMatched, but a match in excludedSubtrees is not a failure.
SubtreeMatchedExcludedIgnored(presentedIDType, presentedID, subtrees, subtreesType, i, hasPermittedSubtreesMatch, hasPermittedSubtreesMismatch, r) ==
  IF r.rv # Success THEN r.rv
  ELSE IF subtreesType \notin {"permittedSubtrees", "excludedSubtrees"}
  THEN FATAL_ERROR_INVALID_ARGS
  ELSE SubtreesNext(presentedIDType, presentedID, subtrees, subtreesType, i,
         hasPermittedSubtreesMatch \/
           (subtreesType = "permittedSubtrees" /\ r.matches),
         hasPermittedSubtreesMismatch \/
           (subtreesType = "permittedSubtrees" /\ ~r.matches))

\* The second switch of the loop body, on subtreesType; r is the [rv, matches]
\* of the first switch.  The default arm is NotReached, which returns
\* FATAL_ERROR_INVALID_ARGS.
SubtreeMatched(presentedIDType, presentedID, subtrees, subtreesType, i, hasPermittedSubtreesMatch, hasPermittedSubtreesMismatch, r) ==
  IF r.rv # Success THEN r.rv
  ELSE IF subtreesType \notin {"permittedSubtrees", "excludedSubtrees"}
  THEN FATAL_ERROR_INVALID_ARGS      \* default: NotReached
  ELSE IF subtreesType = "excludedSubtrees" /\ r.matches
  THEN ERROR_CERT_NOT_IN_NAME_SPACE
  ELSE SubtreesNext(presentedIDType, presentedID, subtrees, subtreesType, i,
         hasPermittedSubtreesMatch \/
           (subtreesType = "permittedSubtrees" /\ r.matches),
         hasPermittedSubtreesMismatch \/
           (subtreesType = "permittedSubtrees" /\ ~r.matches))

\* As SubtreeBase, but the end of the subtree is only checked for an entry of
\* the type of the presented name.
SubtreeBaseOwnTypeOnly(presentedIDType, presentedID, subtrees, subtreesType, i, hasPermittedSubtreesMatch, hasPermittedSubtreesMismatch, gn) ==
  IF gn.rv # Success THEN gn.rv
  ELSE IF presentedIDType = gn.generalNameType
  THEN IF subtrees[i].hasMinMax THEN ERROR_BAD_DER
       ELSE SubtreeMatched(presentedIDType, presentedID, subtrees, subtreesType, i,
              hasPermittedSubtreesMatch, hasPermittedSubtreesMismatch,
              MatchPresentedIDWithConstraint(presentedIDType, presentedID,
                                             subtreesType, gn.value))
  ELSE SubtreesNext(presentedIDType, presentedID, subtrees, subtreesType, i,
                    hasPermittedSubtreesMatch, hasPermittedSubtreesMismatch)

\* The loop body after ReadGeneralName returned gn for the subtree's base.
SubtreeBase(presentedIDType, presentedID, subtrees, subtreesType, i, hasPermittedSubtreesMatch, hasPermittedSubtreesMismatch, gn) ==
  IF gn.rv # Success THEN gn.rv
  ELSE IF subtrees[i].hasMinMax THEN ERROR_BAD_DER     \* der::End(subtree)
  ELSE IF presentedIDType = gn.generalNameType
  THEN SubtreeMatched(presentedIDType, presentedID, subtrees, subtreesType, i,
         hasPermittedSubtreesMatch, hasPermittedSubtreesMismatch,
         MatchPresentedIDWithConstraint(presentedIDType, presentedID,
                                        subtreesType, gn.value))
  ELSE SubtreesNext(presentedIDType, presentedID, subtrees, subtreesType, i,
                    hasPermittedSubtreesMatch, hasPermittedSubtreesMismatch)

SubtreesLoop(presentedIDType, presentedID, subtrees, subtreesType, i, hasPermittedSubtreesMatch, hasPermittedSubtreesMismatch) ==
  IF AtEnd(subtrees, i) THEN ERROR_BAD_DER     \* nothing left to read
  ELSE SubtreeBase(presentedIDType, presentedID, subtrees, subtreesType, i,
                   hasPermittedSubtreesMatch, hasPermittedSubtreesMismatch,
                   ReadGeneralName(subtrees[i].base))

CheckPresentedIDConformsToNameConstraintsSubtrees(presentedIDType, presentedID, subtrees, subtreesType) ==
  SubtreesLoop(presentedIDType, presentedID, subtrees, subtreesType, 1,
               FALSE, FALSE)

(***************************************************************************)
(* CheckPresentedIDConformsToConstraints.  The NameConstraints value is    *)
(* [hasPermitted, permitted, hasExcluded, excluded, trailing]: the two     *)
(* optional subtrees fields and whether bytes follow them.                 *)
(***************************************************************************)
CheckPresentedIDConformsToConstraints(presentedIDType, presentedID, encodedNameConstraints) ==
  IF /\ ~encodedNameConstraints.hasPermitted
     /\ ~encodedNameConstraints.hasExcluded
     /\ ~encodedNameConstraints.trailing
  THEN ERROR_BAD_DER
  ELSE
    Try(IF encodedNameConstraints.hasPermitted
        THEN CheckPresentedIDConformsToNameConstraintsSubtrees(
               presentedIDType, presentedID, encodedNameConstraints.permitted,
               "permittedSubtrees")
        ELSE Success,
    Try(IF encodedNameConstraints.hasExcluded
        THEN CheckPresentedIDConformsToNameConstraintsSubtrees(
               presentedIDType, presentedID, encodedNameConstraints.excluded,
               "excludedSubtrees")
        ELSE Success,
    IF encodedNameConstraints.trailing
    THEN ERROR_BAD_DER      \* der::End(nameConstraints)
    ELSE Success))

(***************************************************************************)
(* MatchPresentedIDWithReferenceID.  Yields [rv, foundMatch].              *)
(***************************************************************************)
\* As MatchPresentedIDWithReferenceID, but an iPAddress matches when one
\* address is a prefix of the other.
MatchPresentedIDWithReferenceIDPrefix(nameType, presentedID, referenceID) ==
  IF nameType = "dNSName"
  THEN [rv |-> Success,
        foundMatch |-> PresentedDNSIDMatchesReferenceDNSID(
                         presentedID, "ReferenceID", referenceID)]
  ELSE IF nameType = "iPAddress"
  THEN [rv |-> Success,
        foundMatch |-> InputsAreEqualPrefix(presentedID, referenceID)]
  ELSE [rv |-> FATAL_ERROR_INVALID_ARGS, foundMatch |-> FALSE]

MatchPresentedIDWithReferenceID(nameType, presentedID, referenceID) ==
  IF nameType = "dNSName"
  THEN [rv |-> Success,
        foundMatch |-> PresentedDNSIDMatchesReferenceDNSID(
                         presentedID, "ReferenceID", referenceID)]
  ELSE IF nameType = "iPAddress"
  THEN [rv |-> Success, foundMatch |-> InputsAreEqual(presentedID, referenceID)]
  ELSE [rv |-> FATAL_ERROR_INVALID_ARGS, foundMatch |-> FALSE]

(***************************************************************************)
(* SearchWithinAVA.  An AVA is [type, valueTag, value]: type is            *)
(* "commonName", "other" (another OID) or "notOID" (the first element is   *)
(* not an OBJECT IDENTIFIER).  Yields [rv, match].                         *)
(***************************************************************************)
SupportedCNEncodings == {"PrintableString", "UTF8String", "TeletexString"}

\* The end of the IPv4 branch, after MatchPresentedIDWithReferenceID returned m.
SearchWithinCNMatched(match, m) ==
  IF m.rv # Success THEN [rv |-> m.rv, match |-> match]
  ELSE [rv |-> Success, match |-> IF m.foundMatch THEN "Match" ELSE "Mismatch"]

\* The branch taken when the value is no presented DNS-ID; ipv4 is what
\* ParseIPv4Address returned for it.
SearchWithinCNIPv4(referenceIDType, referenceID, match, ipv4) ==
  IF ~ipv4.ok THEN [rv |-> Success, match |-> match]
  ELSE IF referenceIDType = "nameConstraints"
  THEN [rv |-> Success,
        match |-> IF CheckPresentedIDConformsToConstraints(
                       "iPAddress", ipv4.out, referenceID) = Success
                  THEN "Match" ELSE "Mismatch"]
  ELSE IF referenceIDType = "iPAddress"
  THEN SearchWithinCNMatched(match,
         MatchPresentedIDWithReferenceID("iPAddress", ipv4.out, referenceID))
  ELSE [rv |-> Success, match |-> match]

\* SearchWithinAVA for a commonName AVA, from the test of the value's encoding
\* on; match is the MatchResult at that point.
SearchWithinCN(ava, referenceIDType, referenceID, match) ==
  IF ava.valueTag \notin SupportedCNEncodings
  THEN [rv |-> Success, match |-> match]
  ELSE IF IsValidPresentedDNSID(ava.value) THEN
    IF referenceIDType = "nameConstraints"
    THEN [rv |-> Success,
          match |-> IF CheckPresentedIDConformsToConstraints(
                         "dNSName", ava.value, referenceID) = Success
                    THEN "Match" ELSE "Mismatch"]
    ELSE IF referenceIDType = "dNSName"
    THEN [rv |-> Success,
          match |-> IF MatchPresentedIDWithReferenceID(
                         "dNSName", ava.value, referenceID).foundMatch
                    THEN "Match" ELSE "Mismatch"]
    ELSE [rv |-> Success, match |-> match]
  ELSE SearchWithinCNIPv4(referenceIDType, referenceID, match,
                          ParseIPv4Address(ava.value))

\* As SearchWithinAVA, but a commonName AVA does not reset the match result.
SearchWithinAVANoReset(ava, referenceIDType, referenceID, match) ==
  IF ava.type = "notOID" THEN [rv |-> ERROR_BAD_DER, match |-> match]
  ELSE IF ava.type # "commonName" THEN [rv |-> Success, match |-> match]
  ELSE SearchWithinCN(ava, referenceIDType, referenceID, match)

SearchWithinAVA(ava, referenceIDType, referenceID, match) ==
  IF ava.type = "notOID" THEN [rv |-> ERROR_BAD_DER, match |-> match]
  ELSE IF ava.type # "commonName" THEN [rv |-> Success, match |-> match]
  \* match = MatchResult::NoNamesOfGivenType: forget an earlier CN
  ELSE SearchWithinCN(ava, referenceIDType, referenceID, "NoNamesOfGivenType")

(***************************************************************************)
(* SearchWithinRDN: the do/while loop over the AVAs of one RDN.            *)
(***************************************************************************)
RECURSIVE SearchWithinRDNLoop(_, _, _, _, _)
\* The loop condition, after SearchWithinAVA returned r for the i-th AVA.
SearchWithinRDNNext(rdn, i, referenceIDType, referenceID, r) ==
  IF r.rv # Success THEN r
  ELSE IF AtEnd(rdn, i + 1) THEN r
  ELSE SearchWithinRDNLoop(rdn, i + 1, referenceIDType, referenceID, r.match)

SearchWithinRDNLoop(rdn, i, referenceIDType, referenceID, match) ==
  IF AtEnd(rdn, i) THEN [rv |-> ERROR_BAD_DER, match |-> match]
  ELSE SearchWithinRDNNext(rdn, i, referenceIDType, referenceID,
         SearchWithinAVA(rdn[i], referenceIDType, referenceID, match))

SearchWithinRDN(rdn, referenceIDType, referenceID, match) ==
  SearchWithinRDNLoop(rdn, 1, referenceIDType, referenceID, match)

(***************************************************************************)
(* SearchNames.  subjectAltName is [present, names]; subject is a Name.    *)
(* Yields [rv, match].                                                     *)
(***************************************************************************)
\* The do/while loop over the GeneralNames of the subjectAltName.  Yields
\* [rv, match, done, hasAtLeastOneDNSNameOrIPAddressSAN]; done is TRUE when
\* the loop returned from SearchNames.
RECURSIVE SearchAltNamesLoop(_, _, _, _, _, _)
\* The end of the loop body: the entry's type is noted, then the loop condition.
SearchAltNamesNext(altNames, i, referenceIDType, referenceID, match, hasAtLeastOneDNSNameOrIPAddressSAN, presentedIDType) ==
  IF AtEnd(altNames, i + 1)
  THEN [rv |-> Success, match |-> match, done |-> FALSE,
        hasAtLeastOneDNSNameOrIPAddressSAN |->
          hasAtLeastOneDNSNameOrIPAddressSAN \/
          presentedIDType = "dNSName" \/ presentedIDType = "iPAddress"]
  ELSE SearchAltNamesLoop(altNames, i + 1, referenceIDType, referenceID, match,
         hasAtLeastOneDNSNameOrIPAddressSAN \/
         presentedIDType = "dNSName" \/ presentedIDType = "iPAddress")

\* A return from inside the loop.
SearchAltNamesReturn(rv, match, hasAtLeastOneDNSNameOrIPAddressSAN) ==
  [rv |-> rv, match |-> match, done |-> TRUE,
   hasAtLeastOneDNSNameOrIPAddressSAN |-> hasAtLeastOneDNSNameOrIPAddressSAN]

\* After CheckPresentedIDConformsToConstraints returned rv for the entry.
SearchAltNameConstrained(altNames, i, referenceIDType, referenceID, match, hasAtLeastOneDNSNameOrIPAddressSAN, presentedIDType, rv) ==
  IF rv # Success
  THEN SearchAltNamesReturn(rv, match, hasAtLeastOneDNSNameOrIPAddressSAN)
  ELSE SearchAltNamesNext(altNames, i, referenceIDType, referenceID, match,
                          hasAtLeastOneDNSNameOrIPAddressSAN, presentedIDType)

\* After MatchPresentedIDWithReferenceID returned m for the entry.
SearchAltNameMatched(altNames, i, referenceIDType, referenceID, match, hasAtLeastOneDNSNameOrIPAddressSAN, presentedIDType, m) ==
  IF m.rv # Success
  THEN SearchAltNamesReturn(m.rv, match, hasAtLeastOneDNSNameOrIPAddressSAN)
  ELSE IF m.foundMatch
  THEN SearchAltNamesReturn(Success, "Match", hasAtLeastOneDNSNameOrIPAddressSAN)
  ELSE SearchAltNamesNext(altNames, i, referenceIDType, referenceID, "Mismatch",
                          hasAtLeastOneDNSNameOrIPAddressSAN, presentedIDType)

\* The loop body after ReadGeneralName returned gn.
SearchAltName(altNames, i, referenceIDType, referenceID, match, hasAtLeastOneDNSNameOrIPAddressSAN, gn) ==
  IF gn.rv # Success
  THEN SearchAltNamesReturn(gn.rv, match, hasAtLeastOneDNSNameOrIPAddressSAN)
  ELSE IF referenceIDType = "nameConstraints"
  THEN SearchAltNameConstrained(altNames, i, referenceIDType, referenceID, match,
         hasAtLeastOneDNSNameOrIPAddressSAN, gn.generalNameType,
         CheckPresentedIDConformsToConstraints(gn.generalNameType, gn.value,
                                               referenceID))
  ELSE IF gn.generalNameType = referenceIDType
  THEN SearchAltNameMatched(altNames, i, referenceIDType, referenceID, match,
         hasAtLeastOneDNSNameOrIPAddressSAN, gn.generalNameType,
         MatchPresentedIDWithReferenceID(gn.generalNameType, gn.value,
                                         referenceID))
  ELSE SearchAltNamesNext(altNames, i, referenceIDType, referenceID, match,
                          hasAtLeastOneDNSNameOrIPAddressSAN, gn.generalNameType)

SearchAltNamesLoop(altNames, i, referenceIDType, referenceID, match, hasAtLeastOneDNSNameOrIPAddressSAN) ==
  IF AtEnd(altNames, i)
  THEN SearchAltNamesReturn(ERROR_BAD_DER, match,
                            hasAtLeastOneDNSNameOrIPAddressSAN)
  ELSE SearchAltName(altNames, i, referenceIDType, referenceID, match,
                     hasAtLeastOneDNSNameOrIPAddressSAN,
                     ReadGeneralName(altNames[i]))

\* der::NestedOf over the RDNs of the subject (EmptyAllowed::Yes).
RECURSIVE SearchSubjectLoop(_, _, _, _, _)
\* After SearchWithinRDN returned r for the i-th RDN.
SearchSubjectNext(subject, i, referenceIDType, referenceID, r) ==
  IF r.rv # Success THEN r
  ELSE SearchSubjectLoop(subject, i + 1, referenceIDType, referenceID, r.match)

SearchSubjectLoop(subject, i, referenceIDType, referenceID, match) ==
  IF AtEnd(subject, i) THEN [rv |-> Success, match |-> match]
  ELSE SearchSubjectNext(subject, i, referenceIDType, referenceID,
         SearchWithinRDN(subject[i], referenceIDType, referenceID, match))

\* As SearchNamesAfterDirectoryName, but a dNSName or iPAddress entry of the
\* subjectAltName does not suppress the fallback.
SearchNamesAfterDirectoryNameNoSuppression(subject, referenceIDType, referenceID, fallBackToCommonName, san, rv) ==
  IF rv # Success THEN [rv |-> rv, match |-> san.match]
  ELSE IF fallBackToCommonName # "Yes"
  THEN [rv |-> Success, match |-> san.match]
  ELSE SearchSubjectLoop(subject, 1, referenceIDType, referenceID, san.match)

\* SearchNames after the check of the subject as a directoryName returned rv;
\* san is what the loop over the subjectAltName left.
SearchNamesAfterDirectoryName(subject, referenceIDType, referenceID, fallBackToCommonName, san, rv) ==
  IF rv # Success THEN [rv |-> rv, match |-> san.match]
  ELSE IF san.hasAtLeastOneDNSNameOrIPAddressSAN \/
          fallBackToCommonName # "Yes"
  THEN [rv |-> Success, match |-> san.match]
  ELSE SearchSubjectLoop(subject, 1, referenceIDType, referenceID, san.match)

\* SearchNames after the subjectAltName.
SearchNamesAfterAltNames(subject, referenceIDType, referenceID, fallBackToCommonName, san) ==
  IF san.done THEN [rv |-> san.rv, match |-> san.match]
  ELSE SearchNamesAfterDirectoryName(subject, referenceIDType, referenceID,
         fallBackToCommonName, san,
         IF referenceIDType = "nameConstraints"
         THEN CheckPresentedIDConformsToConstraints("directoryName", subject,
                                                    referenceID)
         ELSE Success)

SearchNames(subjectAltName, subject, referenceIDType, referenceID, fallBackToCommonName) ==
  SearchNamesAfterAltNames(subject, referenceIDType, referenceID,
    fallBackToCommonName,
    IF subjectAltName.present
    THEN SearchAltNamesLoop(subjectAltName.names, 1, referenceIDType,
                            referenceID, "NoNamesOfGivenType", FALSE)
    ELSE [rv |-> Success, match |-> "NoNamesOfGivenType", done |-> FALSE,
          hasAtLeastOneDNSNameOrIPAddressSAN |-> FALSE])

(***************************************************************************)
(* CheckCertHostname.  cert is [subjectAltName, subject, endEntityOrCA].   *)
(* Yields [rv, match]: the Result returned and the MatchResult of the      *)
(* search ("none" when SearchNames was not called).                        *)
(***************************************************************************)
\* The end of CheckCertHostname, after SearchNames returned.
CheckCertHostnameResult(search) ==
  IF search.rv # Success THEN [rv |-> search.rv, match |-> search.match]
  ELSE IF search.match = "Match" THEN [rv |-> Success, match |-> search.match]
  ELSE [rv |-> ERROR_BAD_CERT_DOMAIN, match |-> search.match]

\* As CheckCertHostnameAddress, but the search for an IPv6 literal falls back
\* to the subject's commonName.
CheckCertHostnameAddressV6Fallback(cert, hostname, ipv6) ==
  IF ipv6.ok
  THEN CheckCertHostnameResult(
         SearchNames(cert.subjectAltName, cert.subject, "iPAddress", ipv6.out,
                     "Yes"))
  ELSE IF ParseIPv4Address(hostname).ok
  THEN CheckCertHostnameResult(
         SearchNames(cert.subjectAltName, cert.subject, "iPAddress",
                     ParseIPv4Address(hostname).out, "Yes"))
  ELSE [rv |-> ERROR_BAD_CERT_DOMAIN, match |-> "none"]

\* CheckCertHostname for a hostname that is no valid reference DNS-ID; ipv6 is
\* what ParseIPv6Address returned for it.
CheckCertHostnameAddress(cert, hostname, ipv6) ==
  IF ipv6.ok
  THEN CheckCertHostnameResult(
         SearchNames(cert.subjectAltName, cert.subject, "iPAddress", ipv6.out,
                     "No"))
  ELSE IF ParseIPv4Address(hostname).ok
  THEN CheckCertHostnameResult(
         SearchNames(cert.subjectAltName, cert.subject, "iPAddress",
                     ParseIPv4Address(hostname).out, "Yes"))
  ELSE [rv |-> ERROR_BAD_CERT_DOMAIN, match |-> "none"]

CheckCertHostname(cert, hostname) ==
  IF IsValidReferenceDNSID(hostname)
  THEN CheckCertHostnameResult(
         SearchNames(cert.subjectAltName, cert.subject, "dNSName", hostname,
                     "Yes"))
  ELSE CheckCertHostnameAddress(cert, hostname, ParseIPv6Address(hostname))

(***************************************************************************)
(* CheckNameConstraints.  chain is the non-empty list of certificates from *)
(* firstChild along childCert.  Yields [rv, match]: the Result returned    *)
(* and the MatchResult of the last SearchNames call.                       *)
(***************************************************************************)
RECURSIVE CheckNameConstraintsLoop(_, _, _, _)
\* As CheckNameConstraintsNext, but the loop ends after the first certificate.
CheckNameConstraintsNextFirstOnly(encodedNameConstraints, chain, i, requiredEKUIfPresent, search) ==
  IF search.rv # Success THEN search
  ELSE IF search.match = "Mismatch"
  THEN [rv |-> ERROR_CERT_NOT_IN_NAME_SPACE, match |-> search.match]
  ELSE [rv |-> Success, match |-> search.match]

\* The loop body after SearchNames returned for the i-th certificate.
CheckNameConstraintsNext(encodedNameConstraints, chain, i, requiredEKUIfPresent, search) ==
  IF search.rv # Success THEN search
  ELSE IF search.match = "Mismatch"
  THEN [rv |-> ERROR_CERT_NOT_IN_NAME_SPACE, match |-> search.match]
  ELSE IF AtEnd(chain, i + 1) THEN [rv |-> Success, match |-> search.match]
  ELSE CheckNameConstraintsLoop(encodedNameConstraints, chain, i + 1,
                                requiredEKUIfPresent)

\* As CheckNameConstraintsLoop, but the fallback to the CN is enabled for a CA
\* certificate too.
CheckNameConstraintsLoopAnyCert(encodedNameConstraints, chain, i, requiredEKUIfPresent) ==
  CheckNameConstraintsNext(encodedNameConstraints, chain, i,
    requiredEKUIfPresent,
    SearchNames(chain[i].subjectAltName, chain[i].subject, "nameConstraints",
                encodedNameConstraints,
                IF requiredEKUIfPresent = "id_kp_serverAuth"
                THEN "Yes" ELSE "No"))

CheckNameConstraintsLoop(encodedNameConstraints, chain, i, requiredEKUIfPresent) ==
  CheckNameConstraintsNext(encodedNameConstraints, chain, i,
    requiredEKUIfPresent,
    SearchNames(chain[i].subjectAltName, chain[i].subject, "nameConstraints",
                encodedNameConstraints,
                IF chain[i].endEntityOrCA = "MustBeEndEntity" /\
                   requiredEKUIfPresent = "id_kp_serverAuth"
                THEN "Yes" ELSE "No"))

CheckNameConstraints(encodedNameConstraints, chain, requiredEKUIfPresent) ==
  CheckNameConstraintsLoop(encodedNameConstraints, chain, 1, requiredEKUIfPresent)

(***************************************************************************)
(* Inputs.  Byte strings are written as tuples of ASCII codes; the comment *)
(* next to each gives the text.                                            *)
(***************************************************************************)
SeqsUpTo(S, n) == UNION {[1..k -> S] : k \in 0..n}

Str_a_b == <<97, 46, 98>>                                  \* "a.b"
Str_C_a_b_dot == <<67, 46, 97, 46, 98, 46>>                \* "C.a.b."
Str_wild_a_b == <<42, 46, 97, 46, 98>>                     \* "*.a.b"
Str_1_2_1_2 == <<49, 46, 50, 46, 49, 46, 50>>              \* "1.2.1.2"
Str_v6 == <<49, 48, 50, 58, 49, 48, 50, 58, 58>>           \* "102:102::"
Str_a_dot_dot_b == <<97, 46, 46, 98>>                      \* "a..b"
IPv4Bytes == <<1, 2, 1, 2>>
IPv6Bytes == <<1, 2, 1, 2, 0, 0, 0, 0, 0, 0, 0, 0, 0, 0, 0, 0>>

\* Bounds of the certificate inputs.
MaxAltNames == 2
MaxRDNs == 2

Hostnames == {Str_a_b, Str_C_a_b_dot, Str_1_2_1_2, Str_v6, Str_a_dot_dot_b}

AltNameSamples ==
  {[tag |-> "dNSName", value |-> Str_wild_a_b],
   [tag |-> "iPAddress", value |-> IPv4Bytes],
   [tag |-> "iPAddress", value |-> IPv6Bytes],
   [tag |-> "rfc822Name", value |-> Str_a_b],
   [tag |-> "invalid", value |-> Str_a_b]}

CN(valueTag, value) == [type |-> "commonName", valueTag |-> valueTag, value |-> value]

AVASamples ==
  {CN("PrintableString", Str_a_b),
   CN("UTF8String", Str_1_2_1_2),
   CN("TeletexString", Str_v6),
   CN("BMPString", Str_a_b),
   [type |-> "other", valueTag |-> "PrintableString", value |-> Str_a_b],
   [type |-> "notOID", valueTag |-> "PrintableString", value |-> Str_a_b]}

RDNSamples ==
  {<<a>> : a \in AVASamples} \cup
  {<<CN("PrintableString", Str_a_b), CN("UTF8String", Str_1_2_1_2)>>}

SubjectAltNames ==
  {[present |-> FALSE, names |-> <<>>]} \cup
  {[present |-> TRUE, names |-> n] : n \in SeqsUpTo(AltNameSamples, MaxAltNames)}

Subjects == SeqsUpTo(RDNSamples, MaxRDNs)

Certs ==
  {[subjectAltName |-> san, subject |-> subj, endEntityOrCA |-> "MustBeEndEntity"] :
     san \in SubjectAltNames, subj \in Subjects}

NoNameConstraints ==
  [hasPermitted |-> FALSE, permitted |-> <<>>,
   hasExcluded |-> FALSE, excluded |-> <<>>, trailing |-> FALSE]

(***************************************************************************)
(* State.                                                                  *)
(***************************************************************************)
VARIABLES
  op,                    \* "idle", or the entry point that was called
  cert,                  \* the end-entity certificate (its names)
  hostname,              \* CheckCertHostname: the hostname argument
  encodedNameConstraints,\* CheckNameConstraints: the constraints argument
  requiredEKUIfPresent,  \* CheckNameConstraints: the key purpose argument
  match,                 \* the MatchResult SearchNames left
  result,                \* the Result returned
  args,                  \* the arguments of a call of a matching function
  ret                    \* the value that call returned

vars == <<op, cert, hostname, encodedNameConstraints, requiredEKUIfPresent,
          match, result, args, ret>>

Init ==
  /\ op = "idle"
  /\ cert \in Certs
  /\ hostname = <<>>
  /\ encodedNameConstraints = NoNameConstraints
  /\ requiredEKUIfPresent = "none"
  /\ match = "none"
  /\ result = "none"
  /\ args = <<>>
  /\ ret = FALSE

CallCheckCertHostname(h) ==
  /\ op = "idle"
  /\ op' = "CheckCertHostname"
  /\ hostname' = h
  /\ LET r == CheckCertHostname(cert, h)
     IN /\ match' = r.match
        /\ result' = r.rv
  /\ UNCHANGED <<cert, encodedNameConstraints, requiredEKUIfPresent, args, ret>>

CallCheckNameConstraints(nc, eku) ==
  /\ op = "idle"
  /\ op' = "CheckNameConstraints"
  /\ encodedNameConstraints' = nc
  /\ requiredEKUIfPresent' = eku
  /\ LET r == CheckNameConstraints(nc, <<cert>>, eku)
     IN /\ match' = r.match
        /\ result' = r.rv
  /\ UNCHANGED <<cert, hostname, args, ret>>

Next == \E h \in Hostnames : CallCheckCertHostname(h)

Spec == Init /\ [][Next]_vars

(***************************************************************************)
(* SpecCN: certificates whose subjectAltName is absent or holds a single   *)
(* entry, end-entity or CA, given to both entry points.                    *)
(***************************************************************************)
Subtree(tag, value) == [base |-> [tag |-> tag, value |-> value], hasMinMax |-> FALSE]

Permitted(subtrees) ==
  [hasPermitted |-> TRUE, permitted |-> subtrees,
   hasExcluded |-> FALSE, excluded |-> <<>>, trailing |-> FALSE]

Excluded(subtrees) ==
  [hasPermitted |-> FALSE, permitted |-> <<>>,
   hasExcluded |-> TRUE, excluded |-> subtrees, trailing |-> FALSE]

NameConstraintsSamples ==
  {Permitted(<<Subtree("dNSName", Str_a_b)>>),
   Excluded(<<Subtree("dNSName", Str_a_b)>>),
   Permitted(<<Subtree("iPAddress", <<1, 2, 1, 2, 255, 255, 255, 255>>)>>),
   Excluded(<<Subtree("iPAddress", <<1, 2, 1, 0, 255, 255, 255, 0>>)>>),
   Permitted(<<Subtree("iPAddress", <<1, 2, 1>>)>>),
   Permitted(<<Subtree("directoryName", <<<<CN("PrintableString", Str_a_b)>>>>)>>)}

KeyPurposes == {"id_kp_serverAuth", "id_kp_clientAuth"}

SubjectAltNamesCN ==
  {[present |-> FALSE, names |-> <<>>],
   [present |-> TRUE, names |-> <<[tag |-> "rfc822Name", value |-> Str_a_b]>>],
   [present |-> TRUE, names |-> <<[tag |-> "dNSName", value |-> Str_a_b]>>]}

CertsCN ==
  {[subjectAltName |-> san, subject |-> subj, endEntityOrCA |-> e] :
     san \in SubjectAltNamesCN, subj \in Subjects,
     e \in {"MustBeEndEntity", "MustBeCA"}}

InitCN ==
  /\ op = "idle"
  /\ cert \in CertsCN
  /\ hostname = <<>>
  /\ encodedNameConstraints = NoNameConstraints
  /\ requiredEKUIfPresent = "none"
  /\ match = "none"
  /\ result = "none"
  /\ args = <<>>
  /\ ret = FALSE

\* CheckCertHostname constructs its BackCert with MustBeEndEntity.
CallCheckCertHostnameCN(h) ==
  /\ cert.endEntityOrCA = "MustBeEndEntity"
  /\ CallCheckCertHostname(h)

NextCN ==
  \/ \E h \in Hostnames : CallCheckCertHostnameCN(h)
  \/ \E nc \in NameConstraintsSamples, eku \in KeyPurposes :
       CallCheckNameConstraints(nc, eku)

SpecCN == InitCN /\ [][NextCN]_vars

(***************************************************************************)
(* SpecDNS: PresentedDNSIDMatchesReferenceDNSID on pairs of identifiers    *)
(* built from labels; the empty label gives "a..b", ".a" and the trailing  *)
(* dot, and the first label of a presented ID may be "*".                  *)
(***************************************************************************)
MaxPresentedLabels == 3
MaxReferenceLabels == 4

Labels == {<<>>, <<97>>, <<65>>, <<98, 99>>}                \* "", "a", "A", "bc"

RECURSIVE Join(_)
Join(labels) ==
  IF labels = <<>> THEN <<>>
  ELSE IF Len(labels) = 1 THEN labels[1]
  ELSE labels[1] \o <<ChDot>> \o Join(Tail(labels))

PresentedDNSIDs ==
  {Join(<<first>> \o rest) :
     first \in Labels \cup {<<ChStar>>},
     rest \in SeqsUpTo(Labels, MaxPresentedLabels - 1)}

ReferenceDNSIDs == {Join(labels) : labels \in SeqsUpTo(Labels, MaxReferenceLabels)}

NoCert ==
  [subjectAltName |-> [present |-> FALSE, names |-> <<>>], subject |-> <<>>,
   endEntityOrCA |-> "MustBeEndEntity"]

InitDNS ==
  /\ op = "idle"
  /\ cert = NoCert
  /\ hostname = <<>>
  /\ encodedNameConstraints = NoNameConstraints
  /\ requiredEKUIfPresent = "none"
  /\ match = "none"
  /\ result = "none"
  /\ args \in {[presentedDNSID |-> p, referenceDNSIDMatchType |-> "ReferenceID",
               referenceDNSID |-> r] :
                p \in PresentedDNSIDs, r \in ReferenceDNSIDs}
  /\ ret = FALSE

CallPresentedDNSIDMatchesReferenceDNSID ==
  /\ op = "idle"
  /\ op' = "PresentedDNSIDMatchesReferenceDNSID"
  /\ ret' = PresentedDNSIDMatchesReferenceDNSID(
              args.presentedDNSID, args.referenceDNSIDMatchType, args.referenceDNSID)
  /\ UNCHANGED <<cert, hostname, encodedNameConstraints, requiredEKUIfPresent,
                 match, result, args>>

NextDNS == CallPresentedDNSIDMatchesReferenceDNSID

SpecDNS == InitDNS /\ [][NextDNS]_vars

(***************************************************************************)
(* SpecID: PresentedDNSIDMatchesReferenceDNSID(s, ReferenceID, s) for      *)
(* every byte string s over IDBytes of at most MaxIDLength bytes.          *)
(***************************************************************************)
MaxIDLength == 5

IDBytes == {97, 65, 49, 45, 46, 42}                        \* a A 1 - . *

InitID ==
  /\ op = "idle"
  /\ cert = NoCert
  /\ hostname = <<>>
  /\ encodedNameConstraints = NoNameConstraints
  /\ requiredEKUIfPresent = "none"
  /\ match = "none"
  /\ result = "none"
  /\ args \in {[presentedDNSID |-> s, referenceDNSIDMatchType |-> "ReferenceID",
               referenceDNSID |-> s] : s \in SeqsUpTo(IDBytes, MaxIDLength)}
  /\ ret = FALSE

SpecID == InitID /\ [][NextDNS]_vars

(***************************************************************************)
(* SpecIP: MatchPresentedIPAddressWithConstraint on an IPv4 address A and  *)
(* a constraint made of A, or of A with one bit flipped, and the mask of a *)
(* prefix length n.                                                        *)
(***************************************************************************)
AddressBytes == {0, 1, 128, 255}

PrefixLengths == 0..32

\* The four mask bytes of prefix length n: the n most significant bits set.
Mask(n) ==
  [i \in 1..4 |->
     LET k == IF n - 8 * (i - 1) < 0 THEN 0
              ELSE IF n - 8 * (i - 1) > 8 THEN 8
              ELSE n - 8 * (i - 1)
     IN 256 - 2 ^ (8 - k)]

\* A XOR (1 << bit), A in network byte order.
FlipBit(A, bit) ==
  [i \in 1..4 |-> IF i = 4 - (bit \div 8) THEN BitXor(A[i], 2 ^ (bit % 8)) ELSE A[i]]

ConstraintKinds == {"same", "flipInside", "flipOutside"}

\* "flipInside" flips bit 32-n, the lowest bit the mask covers; "flipOutside"
\* flips bit 32-n-1, the highest bit the mask leaves out.
ConstraintOf(A, n, kind) ==
  IF kind = "flipInside" THEN FlipBit(A, 32 - n) \o Mask(n)
  ELSE IF kind = "flipOutside" THEN FlipBit(A, 32 - n - 1) \o Mask(n)
  ELSE A \o Mask(n)

IPArgs ==
  {[presentedID |-> A, n |-> n, kind |-> kind,
    iPAddressConstraint |-> ConstraintOf(A, n, kind)] :
     A \in [1..4 -> AddressBytes],
     n \in PrefixLengths,
     kind \in ConstraintKinds}

InitIP ==
  /\ op = "idle"
  /\ cert = NoCert
  /\ hostname = <<>>
  /\ encodedNameConstraints = NoNameConstraints
  /\ requiredEKUIfPresent = "none"
  /\ match = "none"
  /\ result = "none"
  /\ args \in {a \in IPArgs : /\ a.kind = "flipInside" => a.n >= 1
                              /\ a.kind = "flipOutside" => a.n <= 31}
  /\ ret = FALSE

CallMatchPresentedIPAddressWithConstraint ==
  /\ op = "idle"
  /\ op' = "MatchPresentedIPAddressWithConstraint"
  /\ ret' = MatchPresentedIPAddressWithConstraint(args.presentedID,
                                                  args.iPAddressConstraint)
  /\ UNCHANGED <<cert, hostname, encodedNameConstraints, requiredEKUIfPresent,
                 match, result, args>>

NextIP == CallMatchPresentedIPAddressWithConstraint

SpecIP == InitIP /\ [][NextIP]_vars

(***************************************************************************)
(* SpecNC: CheckNameConstraints on a chain of up to MaxChain certificates, *)
(* from firstChild along childCert, each an end-entity or a CA, and        *)
(* CheckCertHostname on the first of them.                                 *)
(***************************************************************************)
MaxChain == 2

Both(permitted, excluded) ==
  [hasPermitted |-> TRUE, permitted |-> permitted,
   hasExcluded |-> TRUE, excluded |-> excluded, trailing |-> FALSE]

NameConstraintsNC ==
  NameConstraintsSamples \cup
  {Excluded(<<Subtree("directoryName", <<>>)>>),
   Excluded(<<Subtree("directoryName", <<<<CN("UTF8String", Str_1_2_1_2)>>>>)>>),
   Permitted(<<Subtree("rfc822Name", Str_a_b)>>),
   Both(<<Subtree("rfc822Name", Str_a_b)>>, <<Subtree("directoryName", <<>>)>>),
   [Permitted(<<Subtree("dNSName", Str_a_b)>>) EXCEPT !.trailing = TRUE]}

SubjectsNC ==
  {<<>>,
   <<<<CN("PrintableString", Str_a_b)>>>>,
   <<<<CN("UTF8String", Str_1_2_1_2)>>>>}

CertsNC ==
  {[subjectAltName |-> san, subject |-> subj, endEntityOrCA |-> e] :
     san \in SubjectAltNamesCN, subj \in SubjectsNC,
     e \in {"MustBeEndEntity", "MustBeCA"}}

Chains == SeqsUpTo(CertsNC, MaxChain) \ {<<>>}

InitNC ==
  /\ op = "idle"
  /\ args \in {[chain |-> ch] : ch \in Chains}
  /\ cert = args.chain[1]
  /\ hostname = <<>>
  /\ encodedNameConstraints = NoNameConstraints
  /\ requiredEKUIfPresent = "none"
  /\ match = "none"
  /\ result = "none"
  /\ ret = FALSE

\* CheckNameConstraints with firstChild = args.chain[1].
CallCheckNameConstraintsChain(nc, eku) ==
  /\ op = "idle"
  /\ op' = "CheckNameConstraints"
  /\ encodedNameConstraints' = nc
  /\ requiredEKUIfPresent' = eku
  /\ LET r == CheckNameConstraints(nc, args.chain, eku)
     IN /\ match' = r.match
        /\ result' = r.rv
  /\ UNCHANGED <<cert, hostname, args, ret>>

\* Either entry point; CheckCertHostname is given firstChild when it is an
\* end-entity certificate.
NextNC ==
  \/ \E nc \in NameConstraintsNC, eku \in KeyPurposes :
       CallCheckNameConstraintsChain(nc, eku)
  \/ \E h \in Hostnames : CallCheckCertHostnameCN(h)

SpecNC == InitNC /\ [][NextNC]_vars

(***************************************************************************)
(* SpecConform: CheckPresentedIDConformsToConstraints on a presented name  *)
(* of each GeneralName type and a NameConstraints value whose permitted    *)
(* and excluded subtrees hold at most MaxSubtrees entries together.        *)
(***************************************************************************)
MaxSubtrees == 2

Str_b_a == <<98, 46, 97>>                                  \* "b.a"

PresentedIDSamples ==
  {[tag |-> "dNSName", value |-> Str_a_b],
   [tag |-> "iPAddress", value |-> IPv4Bytes],
   [tag |-> "directoryName", value |-> <<>>],
   [tag |-> "directoryName", value |-> <<<<CN("PrintableString", Str_a_b)>>>>]} \cup
  {[tag |-> t, value |-> Str_a_b] :
     t \in {"rfc822Name", "otherName", "x400Address", "ediPartyName",
            "uniformResourceIdentifier", "registeredID"}}

\* "1.2.1.2" is no valid DNS-ID; the second iPAddress constraint is another
\* host; the last entry carries a minimum or maximum field.
SubtreeSamples ==
  {Subtree("dNSName", Str_a_b),
   Subtree("dNSName", Str_b_a),
   Subtree("dNSName", Str_1_2_1_2),
   Subtree("iPAddress", <<1, 2, 1, 2, 255, 255, 255, 255>>),
   Subtree("iPAddress", <<1, 2, 1, 3, 255, 255, 255, 255>>),
   Subtree("directoryName", <<>>),
   Subtree("directoryName", <<<<CN("PrintableString", Str_a_b)>>>>),
   [Subtree("dNSName", Str_a_b) EXCEPT !.hasMinMax = TRUE]} \cup
  {Subtree(t, Str_a_b) :
     t \in {"rfc822Name", "otherName", "x400Address", "ediPartyName",
            "uniformResourceIdentifier", "registeredID"}}

\* A field is encoded when it has entries.
NameConstraintsOf(permitted, excluded) ==
  [hasPermitted |-> permitted # <<>>, permitted |-> permitted,
   hasExcluded |-> excluded # <<>>, excluded |-> excluded, trailing |-> FALSE]

NameConstraintsUpTo(n) ==
  {NameConstraintsOf(p, e) :
     <<p, e>> \in {pe \in SeqsUpTo(SubtreeSamples, n) \X SeqsUpTo(SubtreeSamples, n) :
                     Len(pe[1]) + Len(pe[2]) <= n}}

InitConform ==
  /\ op = "idle"
  /\ cert = NoCert
  /\ hostname = <<>>
  /\ encodedNameConstraints = NoNameConstraints
  /\ requiredEKUIfPresent = "none"
  /\ match = "none"
  /\ result = "none"
  /\ args \in {[presentedIDType |-> id.tag, presentedID |-> id.value,
               encodedNameConstraints |-> nc] :
                id \in PresentedIDSamples, nc \in NameConstraintsUpTo(MaxSubtrees)}
  /\ ret = FALSE

CallCheckPresentedIDConformsToConstraints ==
  /\ op = "idle"
  /\ op' = "CheckPresentedIDConformsToConstraints"
  /\ ret' = CheckPresentedIDConformsToConstraints(
              args.presentedIDType, args.presentedID, args.encodedNameConstraints)
  /\ UNCHANGED <<cert, hostname, encodedNameConstraints, requiredEKUIfPresent,
                 match, result, args>>

NextConform == CallCheckPresentedIDConformsToConstraints

SpecConform == InitConform /\ [][NextConform]_vars

(***************************************************************************)
(* SpecDNSNC: PresentedDNSIDMatchesReferenceDNSID in NameConstraint mode,  *)
(* on a presented ID and a dNSName constraint built from labels; the empty *)
(* first label gives the constraints with a leading dot.                   *)
(***************************************************************************)
MaxConstraintLabels == 3

ConstraintLabels == {<<>>, <<97>>, <<98, 99>>, <<99>>}       \* "", "a", "bc", "c"

ConstraintDNSIDs ==
  {Join(labels) : labels \in SeqsUpTo(ConstraintLabels, MaxConstraintLabels)}
    \cup {<<46, 99, 46, 97, 46, 98, 99>>}                    \* ".c.a.bc"

InitDNSNC ==
  /\ op = "idle"
  /\ cert = NoCert
  /\ hostname = <<>>
  /\ encodedNameConstraints = NoNameConstraints
  /\ requiredEKUIfPresent = "none"
  /\ match = "none"
  /\ result = "none"
  /\ args \in {[presentedDNSID |-> p, referenceDNSIDMatchType |-> "NameConstraint",
               referenceDNSID |-> r] :
                p \in PresentedDNSIDs, r \in ConstraintDNSIDs}
  /\ ret = FALSE

SpecDNSNC == InitDNSNC /\ [][NextDNS]_vars

(***************************************************************************)
(* SpecValid: IsValidDNSID in each of its three modes, on every byte       *)
(* string over HostnameBytes of at most MaxHostnameLength bytes and on a   *)
(* few long ones at the limits of the label and of the whole ID.           *)
(***************************************************************************)
MaxHostnameLength == 5

HostnameBytes == {97, 49, 45, 46, 42}                      \* a 1 - . *

ValidDNSIDMatchTypes == {"ReferenceID", "PresentedID", "NameConstraint"}

LabelOfLength(n) == [i \in 1..n |-> ChLowerA]

LongHostnames ==
  {LabelOfLength(MAX_LABEL_LENGTH),
   LabelOfLength(MAX_LABEL_LENGTH + 1),
   Join(<<LabelOfLength(63), LabelOfLength(63), LabelOfLength(63), LabelOfLength(61)>>),
   Join(<<LabelOfLength(63), LabelOfLength(63), LabelOfLength(63), LabelOfLength(62)>>),
   Join(<<LabelOfLength(63), LabelOfLength(63), LabelOfLength(63), LabelOfLength(60), <<>>>>),
   Join(<<LabelOfLength(63), LabelOfLength(63), LabelOfLength(63), LabelOfLength(61), <<>>>>),
   <<120, 110, 45, 45, 42, 46, 97, 46, 97>>,                \* "xn--*.a.a"
   <<42, 46, 120, 110, 45, 45, 97, 46, 97>>}                \* "*.xn--a.a"

InitValid ==
  /\ op = "idle"
  /\ cert = NoCert
  /\ hostname = <<>>
  /\ encodedNameConstraints = NoNameConstraints
  /\ requiredEKUIfPresent = "none"
  /\ match = "none"
  /\ result = "none"
  /\ args \in {[hostname |-> h, matchType |-> m] :
                h \in SeqsUpTo(HostnameBytes, MaxHostnameLength) \cup LongHostnames,
                m \in ValidDNSIDMatchTypes}
  /\ ret = FALSE

CallIsValidDNSID ==
  /\ op = "idle"
  /\ op' = "IsValidDNSID"
  /\ ret' = IsValidDNSID(args.hostname, args.matchType)
  /\ UNCHANGED <<cert, hostname, encodedNameConstraints, requiredEKUIfPresent,
                 match, result, args>>

NextValid == CallIsValidDNSID

SpecValid == InitValid /\ [][NextValid]_vars

(***************************************************************************)
(* SpecSearch: one call of SearchNames taken step by step, one step for    *)
(* each entry of the subjectAltName, one for the check of the subject and  *)
(* the decision to fall back, and two for each AVA of the subject (its     *)
(* type, then its value).  op is the position in the function; args holds  *)
(* the arguments and the locals: i and j are the positions of the readers  *)
(* (entry of the subjectAltName, or RDN and AVA of the subject).           *)
(***************************************************************************)
SearchAltNameSamples ==
  {[tag |-> "dNSName", value |-> Str_a_b],
   [tag |-> "dNSName", value |-> <<98, 46, 97>>],            \* "b.a"
   [tag |-> "rfc822Name", value |-> Str_a_b],
   [tag |-> "invalid", value |-> Str_a_b]}

SearchRDNSamples ==
  {<<CN("PrintableString", Str_a_b)>>,
   <<CN("UTF8String", Str_1_2_1_2),
     [type |-> "other", valueTag |-> "PrintableString", value |-> Str_a_b]>>,
   <<CN("BMPString", Str_a_b)>>,
   <<[type |-> "notOID", valueTag |-> "PrintableString", value |-> Str_a_b]>>}

CertsSearch ==
  {[subjectAltName |-> san, subject |-> subj, endEntityOrCA |-> "MustBeEndEntity"] :
     san \in {[present |-> FALSE, names |-> <<>>]} \cup
             {[present |-> TRUE, names |-> n] :
                n \in SeqsUpTo(SearchAltNameSamples, MaxAltNames)},
     subj \in SeqsUpTo(SearchRDNSamples, MaxRDNs)}

SearchReferences ==
  {[referenceIDType |-> "dNSName", referenceID |-> Str_a_b,
    encodedNameConstraints |-> NoNameConstraints],
   [referenceIDType |-> "iPAddress", referenceID |-> IPv4Bytes,
    encodedNameConstraints |-> NoNameConstraints],
   [referenceIDType |-> "nameConstraints", referenceID |-> <<>>,
    encodedNameConstraints |-> Permitted(<<Subtree("dNSName", Str_a_b)>>)],
   [referenceIDType |-> "nameConstraints", referenceID |-> <<>>,
    encodedNameConstraints |->
      Excluded(<<Subtree("iPAddress", <<1, 2, 1, 0, 255, 255, 255, 0>>)>>)]}

InitSearch ==
  /\ op = "idle"
  /\ cert \in CertsSearch
  /\ hostname = <<>>
  /\ requiredEKUIfPresent = "none"
  /\ match = "none"
  /\ result = "none"
  /\ \E r \in SearchReferences, f \in {"Yes", "No"} :
       /\ encodedNameConstraints = r.encodedNameConstraints
       /\ args = [referenceIDType |-> r.referenceIDType,
                  referenceID |-> r.referenceID,
                  fallBackToCommonName |-> f, i |-> 0, j |-> 0,
                  hasAtLeastOneDNSNameOrIPAddressSAN |-> FALSE]
  /\ ret = FALSE

\* The referenceID argument: CheckNameConstraints passes the encoded name
\* constraints, CheckCertHostname the reference identifier.
SearchReferenceID ==
  IF args.referenceIDType = "nameConstraints"
  THEN encodedNameConstraints ELSE args.referenceID

\* return rv;
SearchReturn(rv) ==
  /\ op' = "returned"
  /\ result' = rv
  /\ UNCHANGED <<cert, hostname, encodedNameConstraints, requiredEKUIfPresent, ret>>

\* The end of the body of the loop over the subjectAltName: the type of the
\* entry is noted, then the loop condition is tested.
SearchAltNamesContinue(presentedIDType) ==
  /\ op' = IF AtEnd(cert.subjectAltName.names, args.i + 1)
           THEN "subject" ELSE "altNames"
  /\ args' = [args EXCEPT
       !.i = @ + 1,
       !.hasAtLeastOneDNSNameOrIPAddressSAN =
          @ \/ presentedIDType = "dNSName" \/ presentedIDType = "iPAddress"]
  /\ UNCHANGED <<cert, hostname, encodedNameConstraints, requiredEKUIfPresent,
                 result, ret>>

\* The reader of the subject moves past the AVA at RDN i, AVA j.
SearchSubjectContinue ==
  IF ~AtEnd(cert.subject[args.i], args.j + 1)
  THEN /\ op' = "ava"
       /\ args' = [args EXCEPT !.j = @ + 1]
       /\ UNCHANGED <<cert, hostname, encodedNameConstraints,
                      requiredEKUIfPresent, result, ret>>
  ELSE IF ~AtEnd(cert.subject, args.i + 1)
  THEN /\ op' = "ava"
       /\ args' = [args EXCEPT !.i = @ + 1, !.j = 1]
       /\ UNCHANGED <<cert, hostname, encodedNameConstraints,
                      requiredEKUIfPresent, result, ret>>
  ELSE /\ UNCHANGED args
       /\ SearchReturn(Success)

\* match = MatchResult::NoNamesOfGivenType, then the subjectAltName is opened.
SearchNamesEnter ==
  /\ op = "idle"
  /\ match' = "NoNamesOfGivenType"
  /\ op' = IF cert.subjectAltName.present THEN "altNames" ELSE "subject"
  /\ args' = [args EXCEPT !.i = 1]
  /\ UNCHANGED <<cert, hostname, encodedNameConstraints, requiredEKUIfPresent,
                 result, ret>>

\* ReadGeneralName fails for the entry.
SearchAltNameUnreadable ==
  /\ op = "altNames"
  /\ IF AtEnd(cert.subjectAltName.names, args.i) THEN TRUE
     ELSE ReadGeneralName(cert.subjectAltName.names[args.i]).rv # Success
  /\ UNCHANGED <<match, args>>
  /\ SearchReturn(ERROR_BAD_DER)

\* The entry is checked against the name constraints.
SearchAltNameConstraints ==
  /\ op = "altNames"
  /\ ~AtEnd(cert.subjectAltName.names, args.i)
  /\ ReadGeneralName(cert.subjectAltName.names[args.i]).rv = Success
  /\ args.referenceIDType = "nameConstraints"
  /\ UNCHANGED match
  /\ LET rv == CheckPresentedIDConformsToConstraints(
                 cert.subjectAltName.names[args.i].tag,
                 cert.subjectAltName.names[args.i].value, SearchReferenceID)
     IN IF rv # Success
        THEN UNCHANGED args /\ SearchReturn(rv)
        ELSE SearchAltNamesContinue(cert.subjectAltName.names[args.i].tag)

\* As SearchAltNameOfReferenceType, but the loop goes on after a match.
SearchAltNameOfReferenceTypeContinue ==
  /\ op = "altNames"
  /\ ~AtEnd(cert.subjectAltName.names, args.i)
  /\ ReadGeneralName(cert.subjectAltName.names[args.i]).rv = Success
  /\ args.referenceIDType # "nameConstraints"
  /\ cert.subjectAltName.names[args.i].tag = args.referenceIDType
  /\ LET m == MatchPresentedIDWithReferenceID(
                cert.subjectAltName.names[args.i].tag,
                cert.subjectAltName.names[args.i].value, SearchReferenceID)
     IN IF m.rv # Success
        THEN UNCHANGED <<match, args>> /\ SearchReturn(m.rv)
        ELSE /\ match' = IF m.foundMatch THEN "Match" ELSE "Mismatch"
             /\ SearchAltNamesContinue(cert.subjectAltName.names[args.i].tag)

\* The entry has the type of the reference ID and is matched against it.
SearchAltNameOfReferenceType ==
  /\ op = "altNames"
  /\ ~AtEnd(cert.subjectAltName.names, args.i)
  /\ ReadGeneralName(cert.subjectAltName.names[args.i]).rv = Success
  /\ args.referenceIDType # "nameConstraints"
  /\ cert.subjectAltName.names[args.i].tag = args.referenceIDType
  /\ LET m == MatchPresentedIDWithReferenceID(
                cert.subjectAltName.names[args.i].tag,
                cert.subjectAltName.names[args.i].value, SearchReferenceID)
     IN IF m.rv # Success
        THEN UNCHANGED <<match, args>> /\ SearchReturn(m.rv)
        ELSE IF m.foundMatch
        THEN /\ match' = "Match"
             /\ UNCHANGED args
             /\ SearchReturn(Success)
        ELSE /\ match' = "Mismatch"
             /\ SearchAltNamesContinue(cert.subjectAltName.names[args.i].tag)

\* The entry has another type than the reference ID.
SearchAltNameOfOtherType ==
  /\ op = "altNames"
  /\ ~AtEnd(cert.subjectAltName.names, args.i)
  /\ ReadGeneralName(cert.subjectAltName.names[args.i]).rv = Success
  /\ args.referenceIDType # "nameConstraints"
  /\ cert.subjectAltName.names[args.i].tag # args.referenceIDType
  /\ UNCHANGED match
  /\ SearchAltNamesContinue(cert.subjectAltName.names[args.i].tag)

\* After the subjectAltName: the subject is checked as a directoryName when
\* the reference is name constraints, then the fallback is decided.
SearchSubject ==
  /\ op = "subject"
  /\ UNCHANGED match
  /\ LET rv == IF args.referenceIDType = "nameConstraints"
               THEN CheckPresentedIDConformsToConstraints(
                      "directoryName", cert.subject, SearchReferenceID)
               ELSE Success
     IN IF rv # Success
        THEN UNCHANGED args /\ SearchReturn(rv)
        ELSE IF args.hasAtLeastOneDNSNameOrIPAddressSAN \/
                args.fallBackToCommonName # "Yes"
        THEN UNCHANGED args /\ SearchReturn(Success)
        ELSE IF AtEnd(cert.subject, 1)
        THEN UNCHANGED args /\ SearchReturn(Success)
        ELSE /\ op' = "ava"
             /\ args' = [args EXCEPT !.i = 1, !.j = 1]
             /\ UNCHANGED <<cert, hostname, encodedNameConstraints,
                            requiredEKUIfPresent, result, ret>>

\* SearchWithinAVA up to the reset of the match result for a commonName.
SearchWithinAVAType ==
  /\ op = "ava"
  /\ IF (IF AtEnd(cert.subject[args.i], args.j) THEN TRUE
         ELSE cert.subject[args.i][args.j].type = "notOID")
     THEN UNCHANGED <<match, args>> /\ SearchReturn(ERROR_BAD_DER)
     ELSE IF cert.subject[args.i][args.j].type # "commonName"
     THEN UNCHANGED match /\ SearchSubjectContinue
     ELSE /\ match' = "NoNamesOfGivenType"
          /\ op' = "cnValue"
          /\ UNCHANGED <<cert, hostname, encodedNameConstraints,
                         requiredEKUIfPresent, result, args, ret>>

\* SearchWithinAVA for a commonName after the reset: the value is examined.
SearchWithinAVAValue ==
  /\ op = "cnValue"
  /\ LET r == SearchWithinCN(cert.subject[args.i][args.j], args.referenceIDType,
                             SearchReferenceID, match)
     IN /\ match' = r.match
        /\ IF r.rv # Success
           THEN UNCHANGED args /\ SearchReturn(r.rv)
           ELSE SearchSubjectContinue

NextSearch ==
  \/ SearchNamesEnter
  \/ SearchAltNameUnreadable
  \/ SearchAltNameConstraints
  \/ SearchAltNameOfReferenceType
  \/ SearchAltNameOfOtherType
  \/ SearchSubject
  \/ SearchWithinAVAType
  \/ SearchWithinAVAValue

SpecSearch == InitSearch /\ [][NextSearch]_vars

(***************************************************************************)
(* SpecParse: the three tests CheckCertHostname makes on a hostname        *)
(* (IsValidReferenceDNSID, ParseIPv4Address, ParseIPv6Address), each       *)
(* applied to every short byte string over LiteralBytes, to the strings    *)
(* of components joined by '.', and to the strings of components joined by *)
(* ':' with a last component that may be a dotted quad.                    *)
(***************************************************************************)
MaxLiteralLength == 4
MaxV4Components == 5
MaxV6Components == 9

LiteralBytes == {ChColon, ChDot, Ch0, 49, 103}              \* ":", ".", "0", "1", "g"

V4Components ==
  {<<>>, <<48>>, <<48, 48>>, <<48, 49>>, <<50, 53, 53>>, <<50, 53, 54>>}
  \* "", "0", "00", "01", "255", "256"

V6Components == {<<>>, <<49, 70>>}                          \* "", "1F"

V6LastComponents ==
  {<<97, 48>>,                                              \* "a0"
   <<102, 102, 102, 102>>,                                  \* "ffff"
   <<49, 50, 51, 52, 53>>,                                  \* "12345"
   Str_1_2_1_2,                                             \* "1.2.1.2"
   <<49, 46, 50, 46, 49, 46, 50, 53, 54>>}                  \* "1.2.1.256"

RECURSIVE JoinWith(_, _)
JoinWith(components, separator) ==
  IF components = <<>> THEN <<>>
  ELSE IF Len(components) = 1 THEN components[1]
  ELSE components[1] \o <<separator>> \o JoinWith(Tail(components), separator)

Literals ==
  SeqsUpTo(LiteralBytes, MaxLiteralLength)
    \cup {JoinWith(c, ChDot) : c \in SeqsUpTo(V4Components, MaxV4Components)}
    \cup {JoinWith(c, ChColon) : c \in SeqsUpTo(V6Components, MaxV6Components)}
    \cup {JoinWith(c \o <<last>>, ChColon) :
            c \in SeqsUpTo(V6Components, MaxV6Components - 1),
            last \in V6LastComponents}

InitParse ==
  /\ op = "idle"
  /\ cert = NoCert
  /\ hostname = <<>>
  /\ encodedNameConstraints = NoNameConstraints
  /\ requiredEKUIfPresent = "none"
  /\ match = "none"
  /\ result = "none"
  /\ args \in {[hostname |-> h] : h \in Literals}
  /\ ret = FALSE

CallIsValidReferenceDNSID ==
  /\ op = "idle"
  /\ op' = "IsValidReferenceDNSID"
  /\ ret' = [ok |-> IsValidReferenceDNSID(args.hostname), out |-> <<>>]
  /\ UNCHANGED <<cert, hostname, encodedNameConstraints, requiredEKUIfPresent,
                 match, result, args>>

CallParseIPv4Address ==
  /\ op = "idle"
  /\ op' = "ParseIPv4Address"
  /\ ret' = ParseIPv4Address(args.hostname)
  /\ UNCHANGED <<cert, hostname, encodedNameConstraints, requiredEKUIfPresent,
                 match, result, args>>

CallParseIPv6Address ==
  /\ op = "idle"
  /\ op' = "ParseIPv6Address"
  /\ ret' = ParseIPv6Address(args.hostname)
  /\ UNCHANGED <<cert, hostname, encodedNameConstraints, requiredEKUIfPresent,
                 match, result, args>>

NextParse ==
  \/ CallIsValidReferenceDNSID
  \/ CallParseIPv4Address
  \/ CallParseIPv6Address

SpecParse == InitParse /\ [][NextParse]_vars

(***************************************************************************)
(* SpecIPLen: MatchPresentedIPAddressWithConstraint on presented addresses *)
(* and constraints of the lengths the function accepts (4 and 16, 8 and    *)
(* 32) and of the lengths around them.  An address is a block of two bytes *)
(* repeated, a constraint an address block and a mask block repeated,      *)
(* both cut or padded with zeros to the length.                            *)
(***************************************************************************)
AddressBlocks == [1..2 -> {0, 1, 128}]

MaskBlocks == [1..2 -> {0, 254, 255}]

PresentedLengths == {0, 3, 4, 5, 8, 15, 16, 17}

ConstraintLengths == {0, 7, 8, 9, 16, 31, 32, 33}

\* n bytes: the block repeated.
Repeat(block, n) == [i \in 1..n |-> block[((i - 1) % Len(block)) + 1]]

\* A constraint of n bytes: the address in the first half, the mask after it.
ConstraintOfLength(address, mask, n) ==
  Repeat(address, n \div 2) \o Repeat(mask, n - (n \div 2))

InitIPLen ==
  /\ op = "idle"
  /\ cert = NoCert
  /\ hostname = <<>>
  /\ encodedNameConstraints = NoNameConstraints
  /\ requiredEKUIfPresent = "none"
  /\ match = "none"
  /\ result = "none"
  /\ args \in {[presentedID |-> Repeat(p, m),
               iPAddressConstraint |-> ConstraintOfLength(a, k, n)] :
                p \in AddressBlocks, m \in PresentedLengths,
                a \in AddressBlocks, k \in MaskBlocks, n \in ConstraintLengths}
  /\ ret = FALSE

SpecIPLen == InitIPLen /\ [][NextIP]_vars

(***************************************************************************)
(* SpecDirName: MatchPresentedDirectoryNameWithConstraint on a presented   *)
(* Name and a directoryName constraint of up to MaxRDNs RDNs each, for a   *)
(* permitted and for an excluded subtree.                                  *)
(***************************************************************************)
InitDirName ==
  /\ op = "idle"
  /\ cert = NoCert
  /\ hostname = <<>>
  /\ encodedNameConstraints = NoNameConstraints
  /\ requiredEKUIfPresent = "none"
  /\ match = "none"
  /\ result = "none"
  /\ args \in {[subtreesType |-> t, presentedID |-> p,
               directoryNameConstraint |-> c] :
                t \in {"permittedSubtrees", "excludedSubtrees"},
                p \in SeqsUpTo(SearchRDNSamples, MaxRDNs),
                c \in SeqsUpTo(SearchRDNSamples, MaxRDNs)}
  /\ ret = FALSE

CallMatchPresentedDirectoryNameWithConstraint ==
  /\ op = "idle"
  /\ op' = "MatchPresentedDirectoryNameWithConstraint"
  /\ ret' = MatchPresentedDirectoryNameWithConstraint(
              args.subtreesType, args.presentedID, args.directoryNameConstraint)
  /\ UNCHANGED <<cert, hostname, encodedNameConstraints, requiredEKUIfPresent,
                 match, result, args>>

NextDirName == CallMatchPresentedDirectoryNameWithConstraint

SpecDirName == InitDirName /\ [][NextDirName]_vars

(***************************************************************************)
(* SpecStrict: CheckPresentedIDConformsToConstraints on NameConstraints    *)
(* values that need not decode: a present subtrees field may be empty, a   *)
(* GeneralSubtree may carry a minimum or maximum or a base of an unknown   *)
(* tag, and bytes may follow the two fields.                               *)
(***************************************************************************)
StrictSubtreeSamples ==
  {[base |-> [tag |-> t, value |-> Str_a_b], hasMinMax |-> m] :
     t \in {"dNSName", "rfc822Name", "invalid"}, m \in BOOLEAN} \cup
  {Subtree("dNSName", Str_b_a)} \cup
  {[base |-> [tag |-> "iPAddress", value |-> <<1, 2, 1, 2, 255, 255, 255, 255>>],
    hasMinMax |-> m] : m \in BOOLEAN}

StrictNameConstraints ==
  {[hasPermitted |-> hp, permitted |-> pe[1],
    hasExcluded |-> he, excluded |-> pe[2], trailing |-> t] :
     pe \in {q \in SeqsUpTo(StrictSubtreeSamples, MaxSubtrees) \X
                   SeqsUpTo(StrictSubtreeSamples, MaxSubtrees) :
               Len(q[1]) + Len(q[2]) <= MaxSubtrees},
     hp \in BOOLEAN, he \in BOOLEAN, t \in BOOLEAN}

InitStrict ==
  /\ op = "idle"
  /\ cert = NoCert
  /\ hostname = <<>>
  /\ encodedNameConstraints = NoNameConstraints
  /\ requiredEKUIfPresent = "none"
  /\ match = "none"
  /\ result = "none"
  /\ args \in {[presentedIDType |-> id.tag, presentedID |-> id.value,
               encodedNameConstraints |-> nc] :
                id \in PresentedIDSamples,
                nc \in {c \in StrictNameConstraints :
                          /\ c.permitted # <<>> => c.hasPermitted
                          /\ c.excluded # <<>> => c.hasExcluded}}
  /\ ret = FALSE

SpecStrict == InitStrict /\ [][NextConform]_vars

(***************************************************************************)
(* Vocabulary of the properties.                                           *)
(***************************************************************************)
WellFormedAltNames(san) ==
  ~san.present \/
  (Len(san.names) > 0 /\ \A i \in 1..Len(san.names) : san.names[i].tag \in GeneralNameTypes)

WellFormedSubject(subject) ==
  \A i \in 1..Len(subject) :
    Len(subject[i]) > 0 /\ \A j \in 1..Len(subject[i]) : subject[i][j].type # "notOID"

\* How CheckCertHostname is to treat a hostname: the reference type and
\* value it searches for and whether it may fall back to the CN.
HostnameClass(h) ==
  IF IsValidReferenceDNSID(h)
  THEN [kind |-> "dns", type |-> "dNSName", id |-> h, fallBack |-> "Yes"]
  ELSE IF ParseIPv6Address(h).ok
  THEN [kind |-> "ipv6", type |-> "iPAddress", id |-> ParseIPv6Address(h).out,
        fallBack |-> "No"]
  ELSE IF ParseIPv4Address(h).ok
  THEN [kind |-> "ipv4", type |-> "iPAddress", id |-> ParseIPv4Address(h).out,
        fallBack |-> "Yes"]
  ELSE [kind |-> "invalid", type |-> "none", id |-> <<>>, fallBack |-> "No"]

\* The presented identifier `name` is of the reference type and matches.
AltNameMatches(name, ref) ==
  /\ name.tag = ref.type
  /\ IF ref.type = "dNSName"
     THEN PresentedDNSIDMatchesReferenceDNSID(name.value, "ReferenceID", ref.id)
     ELSE name.value = ref.id

HasDNSNameOrIPAddressSAN(san) ==
  san.present /\ \E i \in 1..Len(san.names) : san.names[i].tag \in {"dNSName", "iPAddress"}

\* The search meets a malformed part of the names before it ends.
MalformedAltNameRead(san, ref) ==
  san.present /\
  (\/ Len(san.names) = 0
   \/ \E i \in 1..Len(san.names) :
        /\ san.names[i].tag \notin GeneralNameTypes
        /\ \A j \in 1..(i - 1) : ~AltNameMatches(san.names[j], ref))

SubjectSearched(c, ref) ==
  /\ WellFormedAltNames(c.subjectAltName)
  /\ ~HasDNSNameOrIPAddressSAN(c.subjectAltName)
  /\ ref.fallBack = "Yes"

MalformedNamesRead(c, h) ==
  LET ref == HostnameClass(h)
  IN ref.kind # "invalid" /\
     (\/ MalformedAltNameRead(c.subjectAltName, ref)
      \/ (SubjectSearched(c, ref) /\ ~WellFormedSubject(c.subject)))

(***************************************************************************)
(* C1 (as amended).  CheckCertHostname: with well-formed names the call    *)
(* returns Success exactly when the search ended in Match and              *)
(* ERROR_BAD_CERT_DOMAIN in every other case, including a hostname that is *)
(* neither a reference DNS-ID nor an IP literal; it returns ERROR_BAD_DER  *)
(* exactly when the search reads a malformed part of the names before it   *)
(* ends.                                                                   *)
(***************************************************************************)
C1_HostnameResult ==
  op = "CheckCertHostname" =>
    /\ (WellFormedAltNames(cert.subjectAltName) /\ WellFormedSubject(cert.subject)) =>
         /\ (result = Success <=> match = "Match")
         /\ (match # "Match" => result = ERROR_BAD_CERT_DOMAIN)
    /\ HostnameClass(hostname).kind = "invalid" => result = ERROR_BAD_CERT_DOMAIN
    /\ result = ERROR_BAD_DER <=> MalformedNamesRead(cert, hostname)
    /\ result \in {Success, ERROR_BAD_CERT_DOMAIN, ERROR_BAD_DER}

\* C1 as stated: malformed DER in the names yields ERROR_BAD_DER (taken for the
\* hostnames the claim does not already give ERROR_BAD_CERT_DOMAIN).
C1_MalformedAlwaysBadDer ==
  (op = "CheckCertHostname" /\ HostnameClass(hostname).kind # "invalid" /\
   ~(WellFormedAltNames(cert.subjectAltName) /\ WellFormedSubject(cert.subject)))
    => result = ERROR_BAD_DER

\* A malformed SAN entry that the search reads after a mismatching one.
C1_Witness ==
  /\ op = "CheckCertHostname"
  /\ hostname = Str_a_b
  /\ cert.subjectAltName.present
  /\ cert.subjectAltName.names =
       <<[tag |-> "dNSName", value |-> Str_wild_a_b],
         [tag |-> "invalid", value |-> Str_a_b]>>
  /\ result = ERROR_BAD_DER

(***************************************************************************)
(* C2.  CN fallback suppression: when the subjectAltName holds at least    *)
(* one dNSName or iPAddress entry the subject is never examined, so the    *)
(* outcome is the one of the same certificate with an empty subject, even  *)
(* when no SAN entry has the reference type; a SAN whose entries all have  *)
(* other types does not suppress the fallback, so the outcome is the one   *)
(* of the same certificate without a subjectAltName.                       *)
(***************************************************************************)
C2_FallbackSuppression ==
  op = "CheckCertHostname" =>
    /\ HasDNSNameOrIPAddressSAN(cert.subjectAltName) =>
         [rv |-> result, match |-> match] =
           CheckCertHostname([cert EXCEPT !.subject = <<>>], hostname)
    /\ (HasDNSNameOrIPAddressSAN(cert.subjectAltName) /\
        WellFormedAltNames(cert.subjectAltName) /\
        \A i \in 1..Len(cert.subjectAltName.names) :
          cert.subjectAltName.names[i].tag # HostnameClass(hostname).type)
         => result = ERROR_BAD_CERT_DOMAIN
    /\ (WellFormedAltNames(cert.subjectAltName) /\
        ~HasDNSNameOrIPAddressSAN(cert.subjectAltName)) =>
         [rv |-> result, match |-> match] =
           CheckCertHostname(
             [cert EXCEPT !.subjectAltName = [present |-> FALSE, names |-> <<>>]],
             hostname)

\* The claim's example: DNS hostname, SAN holding only an iPAddress, CN equal
\* to the hostname.
C2_Witness ==
  /\ op = "CheckCertHostname"
  /\ hostname = Str_a_b
  /\ cert.subjectAltName.present
  /\ cert.subjectAltName.names = <<[tag |-> "iPAddress", value |-> IPv4Bytes]>>
  /\ cert.subject = <<<<CN("PrintableString", Str_a_b)>>>>
  /\ result = ERROR_BAD_CERT_DOMAIN

(***************************************************************************)
(* C4.  IPv6 never uses the CN fallback: for an IPv6-literal hostname the  *)
(* outcome does not depend on the subject and is Success only when an      *)
(* iPAddress SAN entry holds the 16 bytes of the address; DNS and IPv4     *)
(* hostnames fall back to the CN (a certificate without SAN whose only CN  *)
(* is the hostname matches); and a CN that is neither a presented DNS-ID   *)
(* nor an IPv4 literal, such as the text of an IPv6 address, never matches.*)
(***************************************************************************)
LastRDN(subject) == subject[Len(subject)]

C4_NoIPv6Fallback ==
  op = "CheckCertHostname" =>
    LET ref == HostnameClass(hostname)
    IN /\ ref.kind = "ipv6" =>
            /\ [rv |-> result, match |-> match] =
                 CheckCertHostname([cert EXCEPT !.subject = <<>>], hostname)
            /\ result = Success =>
                 \E i \in 1..Len(cert.subjectAltName.names) :
                   /\ cert.subjectAltName.names[i].tag = "iPAddress"
                   /\ Len(cert.subjectAltName.names[i].value) = 16
                   /\ cert.subjectAltName.names[i].value = ref.id
            /\ (WellFormedAltNames(cert.subjectAltName) /\ result # Success)
                 => result = ERROR_BAD_CERT_DOMAIN
       /\ (ref.kind \in {"dns", "ipv4"} /\ ~cert.subjectAltName.present /\
           \E tag \in SupportedCNEncodings : cert.subject = <<<<CN(tag, hostname)>>>>)
            => result = Success
       /\ (SubjectSearched(cert, ref) /\ WellFormedSubject(cert.subject) /\
           Len(cert.subject) > 0 /\ Len(LastRDN(cert.subject)) = 1 /\
           LastRDN(cert.subject)[1].type = "commonName" /\
           ~IsValidPresentedDNSID(LastRDN(cert.subject)[1].value) /\
           ~ParseIPv4Address(LastRDN(cert.subject)[1].value).ok)
            => (match = "NoNamesOfGivenType" /\ result = ERROR_BAD_CERT_DOMAIN)

\* An IPv6 hostname, no SAN, and a CN holding the same IPv6 text.
C4_Witness ==
  /\ op = "CheckCertHostname"
  /\ hostname = Str_v6
  /\ ~cert.subjectAltName.present
  /\ cert.subject = <<<<CN("TeletexString", Str_v6)>>>>
  /\ match = "NoNamesOfGivenType"
  /\ result = ERROR_BAD_CERT_DOMAIN

(***************************************************************************)
(* C8.  Type separation: with an IPv4 hostname and a well-formed SAN whose *)
(* iPAddress entries are all 16 bytes long (and there is one), or an IPv6  *)
(* hostname and iPAddress entries that are all 4 bytes long, the call      *)
(* returns ERROR_BAD_CERT_DOMAIN.                                          *)
(***************************************************************************)
AllIPAddressSANsHaveLength(san, n) ==
  /\ WellFormedAltNames(san)
  /\ \E i \in 1..Len(san.names) : san.names[i].tag = "iPAddress"
  /\ \A i \in 1..Len(san.names) :
       san.names[i].tag = "iPAddress" => Len(san.names[i].value) = n

C8_TypeSeparation ==
  op = "CheckCertHostname" =>
    /\ (HostnameClass(hostname).kind = "ipv4" /\
        AllIPAddressSANsHaveLength(cert.subjectAltName, 16))
         => (result = ERROR_BAD_CERT_DOMAIN /\ match = "Mismatch")
    /\ (HostnameClass(hostname).kind = "ipv6" /\
        AllIPAddressSANsHaveLength(cert.subjectAltName, 4))
         => (result = ERROR_BAD_CERT_DOMAIN /\ match = "Mismatch")

\* An IPv4 hostname against the IPv6 address that starts with the same bytes.
C8_Witness ==
  /\ op = "CheckCertHostname"
  /\ hostname = Str_1_2_1_2
  /\ cert.subjectAltName.present
  /\ cert.subjectAltName.names = <<[tag |-> "iPAddress", value |-> IPv6Bytes]>>
  /\ result = ERROR_BAD_CERT_DOMAIN

(***************************************************************************)
(* C3.  Most-specific CN: when the CN fallback is performed, the match     *)
(* result it leaves is the one of evaluating the last commonName AVA of    *)
(* the subject alone, starting from NoNamesOfGivenType (and is             *)
(* NoNamesOfGivenType when there is no CN, or when the last CN has an      *)
(* unsupported encoding or is neither a DNS-ID nor an IPv4 literal); the   *)
(* value returned follows from that result alone, in hostname matching and *)
(* in name-constraint checking.                                            *)
(***************************************************************************)
RECURSIVE Flatten(_)
Flatten(subject) ==
  IF subject = <<>> THEN <<>> ELSE Head(subject) \o Flatten(Tail(subject))

CommonNames(subject) ==
  SelectSeq(Flatten(subject), LAMBDA ava : ava.type = "commonName")

LastCNMatch(subject, referenceIDType, referenceID) ==
  LET cns == CommonNames(subject)
  IN IF cns = <<>> THEN "NoNamesOfGivenType"
     ELSE SearchWithinAVA(cns[Len(cns)], referenceIDType, referenceID,
                          "NoNamesOfGivenType").match

LastCNIsNoIdentifier(subject) ==
  LET cns == CommonNames(subject)
      last == cns[Len(cns)]
  IN cns # <<>> /\
     (\/ last.valueTag \notin SupportedCNEncodings
      \/ (~IsValidPresentedDNSID(last.value) /\ ~ParseIPv4Address(last.value).ok))

\* The name-constraint search of `cert` reaches the CN fallback: the checks of
\* the SAN entries and of the subject as a directoryName pass, no dNSName or
\* iPAddress SAN entry exists, and the fallback is enabled.
ConstraintFallbackPerformed ==
  /\ cert.endEntityOrCA = "MustBeEndEntity"
  /\ requiredEKUIfPresent = "id_kp_serverAuth"
  /\ ~HasDNSNameOrIPAddressSAN(cert.subjectAltName)
  /\ CheckNameConstraints(encodedNameConstraints, <<cert>>, "id_kp_clientAuth").rv
       = Success

C3_MostSpecificCN ==
  /\ (op = "CheckCertHostname" /\
      SubjectSearched(cert, HostnameClass(hostname)) /\
      WellFormedSubject(cert.subject)) =>
       LET ref == HostnameClass(hostname)
           last == LastCNMatch(cert.subject, ref.type, ref.id)
       IN /\ match = last
          /\ result = IF last = "Match" THEN Success ELSE ERROR_BAD_CERT_DOMAIN
          /\ LastCNIsNoIdentifier(cert.subject) => match = "NoNamesOfGivenType"
  /\ (op = "CheckNameConstraints" /\ ConstraintFallbackPerformed /\
      WellFormedSubject(cert.subject)) =>
       LET last == LastCNMatch(cert.subject, "nameConstraints",
                               encodedNameConstraints)
       IN /\ match = last
          /\ result = IF last = "Mismatch" THEN ERROR_CERT_NOT_IN_NAME_SPACE
                      ELSE Success
          /\ LastCNIsNoIdentifier(cert.subject) =>
               (match = "NoNamesOfGivenType" /\ result = Success)

\* Hostname matching: the first CN is the hostname, the last one has an
\* unsupported encoding.
C3_Witness ==
  /\ op = "CheckCertHostname"
  /\ hostname = Str_a_b
  /\ ~cert.subjectAltName.present
  /\ cert.subject = <<<<CN("PrintableString", Str_a_b)>>, <<CN("BMPString", Str_a_b)>>>>
  /\ match = "NoNamesOfGivenType"
  /\ result = ERROR_BAD_CERT_DOMAIN


(***************************************************************************)
(* Vocabulary of the claims about PresentedDNSIDMatchesReferenceDNSID.     *)
(***************************************************************************)
AsciiLower(b) == IF b >= 65 /\ b <= 90 THEN b + 32 ELSE b

AsciiUpper(b) == IF b >= 97 /\ b <= 122 THEN b - 32 ELSE b

Lower(id) == [i \in 1..Len(id) |-> AsciiLower(id[i])]

Upper(id) == [i \in 1..Len(id) |-> AsciiUpper(id[i])]

EndsWithDot(id) == Len(id) > 0 /\ id[Len(id)] = ChDot

WithoutTrailingDot(id) == IF EndsWithDot(id) THEN SubSeq(id, 1, Len(id) - 1) ELSE id

IsWildcardID(id) == Len(id) >= 2 /\ id[1] = ChStar /\ id[2] = ChDot

DNSCallDone == op = "PresentedDNSIDMatchesReferenceDNSID"

\* R without its trailing dot is L "." S' with L one non-empty label and S'
\* equal to S, the part of P after "*.", ignoring ASCII case.
WildcardLocal(P, R) ==
  LET S == SubSeq(P, 3, Len(P))
      R0 == WithoutTrailingDot(R)
  IN \E k \in 1..Len(R0) :
       /\ \A j \in 1..k : R0[j] # ChDot
       /\ k + 1 <= Len(R0)
       /\ R0[k + 1] = ChDot
       /\ Lower(SubSeq(R0, k + 2, Len(R0))) = Lower(S)

(***************************************************************************)
(* C5.  Wildcard locality: in ReferenceID mode a valid presented ID "*.S"  *)
(* matches a valid reference ID R exactly when R, without an optional      *)
(* trailing dot, is one non-empty label, a dot, and S up to ASCII case.    *)
(***************************************************************************)
C5_WildcardLocality ==
  (/\ DNSCallDone
   /\ IsWildcardID(args.presentedDNSID)
   /\ IsValidPresentedDNSID(args.presentedDNSID)
   /\ IsValidReferenceDNSID(args.referenceDNSID)) =>
    (ret <=> WildcardLocal(args.presentedDNSID, args.referenceDNSID))

\* "*.a.bc" against "bc.A.bc." matches.
C5_Witness ==
  /\ DNSCallDone
  /\ args.presentedDNSID = <<42, 46, 97, 46, 98, 99>>
  /\ args.referenceDNSID = <<98, 99, 46, 65, 46, 98, 99, 46>>
  /\ ret = TRUE

(***************************************************************************)
(* C6.  Trailing dot: in ReferenceID mode a presented ID gives the same    *)
(* answer against a relative reference ID and against that reference ID    *)
(* followed by one dot, a valid presented ID without wildcard matches      *)
(* itself and itself followed by a dot, and a presented ID that ends in a  *)
(* dot matches no reference ID.                                            *)
(***************************************************************************)
C6_TrailingDot ==
  DNSCallDone =>
    LET P == args.presentedDNSID
        R == args.referenceDNSID
    IN /\ (IsValidReferenceDNSID(R) /\ ~EndsWithDot(R)) =>
            ret = PresentedDNSIDMatchesReferenceDNSID(P, "ReferenceID",
                                                      R \o <<ChDot>>)
       /\ (/\ IsValidPresentedDNSID(P)
           /\ ~IsWildcardID(P)
           /\ (R = P \/ R = P \o <<ChDot>>)) => ret = TRUE
       /\ EndsWithDot(P) => ret = FALSE

\* "a.bc" against "a.bc." matches.
C6_Witness ==
  /\ DNSCallDone
  /\ args.presentedDNSID = <<97, 46, 98, 99>>
  /\ args.referenceDNSID = <<97, 46, 98, 99, 46>>
  /\ ret = TRUE

(***************************************************************************)
(* C7.  Case insensitivity: the answer for (P, H) is the answer for the    *)
(* lower-cased and for the upper-cased pair, and LocaleInsensitveToLower   *)
(* maps 'A'..'Z' to 'a'..'z' and every other byte to itself.               *)
(***************************************************************************)
C7_CaseInsensitivity ==
  DNSCallDone =>
    LET P == args.presentedDNSID
        H == args.referenceDNSID
    IN /\ ret = PresentedDNSIDMatchesReferenceDNSID(Lower(P), "ReferenceID", Lower(H))
       /\ ret = PresentedDNSIDMatchesReferenceDNSID(Upper(P), "ReferenceID", Upper(H))
       /\ \A b \in 0..255 : LocaleInsensitveToLower(b) = AsciiLower(b)

\* "a.bc" against "A.bc" matches.
C7_Witness ==
  /\ DNSCallDone
  /\ args.presentedDNSID = <<97, 46, 98, 99>>
  /\ args.referenceDNSID = <<65, 46, 98, 99>>
  /\ ret = TRUE

(***************************************************************************)
(* C9.  Round trip: a byte string s that IsValidReferenceDNSID accepts and *)
(* that does not end in a dot matches itself in ReferenceID mode; an       *)
(* accepted s that ends in a dot does not, as it is no valid presented ID. *)
(***************************************************************************)
C9_RoundTrip ==
  (/\ DNSCallDone
   /\ args.presentedDNSID = args.referenceDNSID
   /\ IsValidReferenceDNSID(args.referenceDNSID)) =>
    (ret <=> ~EndsWithDot(args.referenceDNSID))

\* C9 as stated: every byte string s that IsValidReferenceDNSID accepts matches
\* itself.
C9_RoundTripEveryReference ==
  (/\ DNSCallDone
   /\ args.presentedDNSID = args.referenceDNSID
   /\ IsValidReferenceDNSID(args.referenceDNSID)) => ret = TRUE

\* "a-1.A" matches itself.
C9_Witness ==
  /\ DNSCallDone
  /\ args.presentedDNSID = <<97, 45, 49, 46, 65>>
  /\ args.referenceDNSID = <<97, 45, 49, 46, 65>>
  /\ IsValidReferenceDNSID(args.referenceDNSID)
  /\ ret = TRUE

(***************************************************************************)
(* C10.  Mask correctness: an IPv4 address A matches the constraint        *)
(* A || mask(n) for 0 <= n <= 32; it does not match                        *)
(* (A XOR (1 << (32-n))) || mask(n) for 1 <= n <= 32, where the flipped    *)
(* bit is the lowest one the mask covers; and it still matches             *)
(* (A XOR (1 << (32-n-1))) || mask(n) for 0 <= n <= 31, where the flipped  *)
(* bit is outside the mask.                                                *)
(***************************************************************************)
IPCallDone == op = "MatchPresentedIPAddressWithConstraint"

C10_MaskCorrectness ==
  IPCallDone =>
    /\ ret.rv = Success
    /\ args.kind = "same" => ret.foundMatch = TRUE
    /\ args.kind = "flipInside" => ret.foundMatch = FALSE
    /\ args.kind = "flipOutside" => ret.foundMatch = TRUE

\* C10 as stated: A matches A || mask(n) and does not match
\* (A XOR (1 << (32-n-1))) || mask(n).
C10_MaskAsStated ==
  IPCallDone =>
    /\ args.kind = "same" => ret.foundMatch = TRUE
    /\ args.kind = "flipOutside" => ret.foundMatch = FALSE

\* 1.0.128.255 against 1.0.129.255/24: the flipped bit is bit 8.
C10_Witness ==
  /\ IPCallDone
  /\ args.presentedID = <<1, 0, 128, 255>>
  /\ args.n = 24
  /\ args.kind = "flipInside"
  /\ args.iPAddressConstraint = <<1, 0, 129, 255, 255, 255, 255, 0>>
  /\ ret.foundMatch = FALSE


(***************************************************************************)
(* Vocabulary of the claims about name constraints.                        *)
(***************************************************************************)
WellFormedSubtrees(subtrees) ==
  /\ Len(subtrees) > 0
  /\ \A i \in 1..Len(subtrees) :
       subtrees[i].base.tag \in GeneralNameTypes /\ ~subtrees[i].hasMinMax

\* The NameConstraints value decodes: one of the fields is present, each
\* present field is a non-empty list of GeneralSubtrees that hold a
\* GeneralName and nothing else, and nothing follows the fields.
WellFormedNameConstraints(nc) ==
  /\ nc.hasPermitted \/ nc.hasExcluded
  /\ nc.hasPermitted => WellFormedSubtrees(nc.permitted)
  /\ nc.hasExcluded => WellFormedSubtrees(nc.excluded)
  /\ ~nc.trailing

PermittedOfType(nc, type) ==
  IF nc.hasPermitted
  THEN SelectSeq(nc.permitted, LAMBDA st : st.base.tag = type)
  ELSE <<>>

ExcludedOfType(nc, type) ==
  IF nc.hasExcluded
  THEN SelectSeq(nc.excluded, LAMBDA st : st.base.tag = type)
  ELSE <<>>

\* Some entry of the subjectAltName fails its check against the constraints
\* with the Result rv.
AltNameCheckFailsWith(san, nc, rv) ==
  /\ san.present
  /\ rv # Success
  /\ \E i \in 1..Len(san.names) :
       CheckPresentedIDConformsToConstraints(san.names[i].tag, san.names[i].value, nc) = rv

NCCallDone == op = "CheckNameConstraints"

(***************************************************************************)
(* C11.  CheckNameConstraints with well-formed constraints that hold an    *)
(* excluded directoryName entry, empty or not: unless an entry of the      *)
(* first child's subjectAltName already failed its check, the call returns *)
(* ERROR_CERT_NOT_IN_NAME_SPACE, whatever the child's subject.             *)
(***************************************************************************)
C11_ExcludedDirectoryName ==
  (/\ NCCallDone
   /\ WellFormedNameConstraints(encodedNameConstraints)
   /\ ExcludedOfType(encodedNameConstraints, "directoryName") # <<>>) =>
     \/ result = ERROR_CERT_NOT_IN_NAME_SPACE
     \/ AltNameCheckFailsWith(args.chain[1].subjectAltName,
                              encodedNameConstraints, result)

\* A non-empty excluded directoryName that is no prefix of the (empty) subject.
C11_Witness ==
  /\ NCCallDone
  /\ encodedNameConstraints =
       Excluded(<<Subtree("directoryName", <<<<CN("UTF8String", Str_1_2_1_2)>>>>)>>)
  /\ Len(args.chain) = 1
  /\ ~args.chain[1].subjectAltName.present
  /\ args.chain[1].subject = <<>>
  /\ result = ERROR_CERT_NOT_IN_NAME_SPACE


(***************************************************************************)
(* Vocabulary of the claims about CheckPresentedIDConformsToConstraints.   *)
(***************************************************************************)
ConformDone == op = "CheckPresentedIDConformsToConstraints"

\* The presented name matches the base of a subtree entry of its own type.
\* An excluded directoryName entry rejects every name, so it counts as a
\* match; the types without a matcher never match.
EntryMatches(type, id, subtreesType, base) ==
  IF type = "dNSName"
  THEN PresentedDNSIDMatchesReferenceDNSID(id, "NameConstraint", base)
  ELSE IF type = "iPAddress"
  THEN MatchPresentedIPAddressWithConstraint(id, base).foundMatch
  ELSE IF type = "directoryName"
  THEN subtreesType = "excludedSubtrees" \/ DirectoryNamePrefixLoop(base, id, 1)
  ELSE FALSE

AnyMatches(entries, type, id, subtreesType) ==
  \E i \in 1..Len(entries) : EntryMatches(type, id, subtreesType, entries[i].base.value)

\* The constraints without the entries of a type other than `type`.
OwnType(nc, type) ==
  NameConstraintsOf(PermittedOfType(nc, type), ExcludedOfType(nc, type))

\* What C12 says of the Result r of checking (type, id) against nc.
RejectionRule(type, id, nc, r) ==
  /\ (PermittedOfType(nc, type) # <<>> /\
      ~AnyMatches(PermittedOfType(nc, type), type, id, "permittedSubtrees"))
       => r = ERROR_CERT_NOT_IN_NAME_SPACE
  /\ AnyMatches(ExcludedOfType(nc, type), type, id, "excludedSubtrees")
       => r = ERROR_CERT_NOT_IN_NAME_SPACE
  /\ (PermittedOfType(nc, type) = <<>> /\ ExcludedOfType(nc, type) = <<>>)
       => r = Success
  /\ r = IF PermittedOfType(nc, type) = <<>> /\ ExcludedOfType(nc, type) = <<>>
         THEN Success
         ELSE CheckPresentedIDConformsToConstraints(type, id, OwnType(nc, type))

(***************************************************************************)
(* C12 (as amended).  CheckPresentedIDConformsToConstraints on a presented *)
(* name of a type T other than rfc822Name and constraints that decode:     *)
(* the result is ERROR_CERT_NOT_IN_NAME_SPACE when permittedSubtrees holds *)
(* entries of type T and none matches, and when an excludedSubtrees entry  *)
(* of type T matches; the entries of another type do not change the        *)
(* result, and a name whose type has no entry conforms.                    *)
(***************************************************************************)
C12_RejectionRule ==
  (/\ ConformDone
   /\ WellFormedNameConstraints(args.encodedNameConstraints)
   /\ args.presentedIDType # "rfc822Name") =>
     RejectionRule(args.presentedIDType, args.presentedID,
                   args.encodedNameConstraints, ret)

\* C12 as stated, read for constraints that decode: the rule for a presented
\* name of every type.
C12_RejectionRuleEveryType ==
  (ConformDone /\ WellFormedNameConstraints(args.encodedNameConstraints)) =>
    RejectionRule(args.presentedIDType, args.presentedID,
                  args.encodedNameConstraints, ret)

\* A permitted dNSName entry that does not match, next to an iPAddress entry.
C12_Witness ==
  /\ ConformDone
  /\ args.presentedIDType = "dNSName"
  /\ args.encodedNameConstraints =
       NameConstraintsOf(<<Subtree("dNSName", Str_b_a),
                           Subtree("iPAddress", <<1, 2, 1, 2, 255, 255, 255, 255>>)>>,
                         <<>>)
  /\ ret = ERROR_CERT_NOT_IN_NAME_SPACE


(***************************************************************************)
(* C13.  A valid presented DNS-ID P without a wildcard matches a dNSName   *)
(* constraint C exactly when C is empty, or C has no leading '.' and P     *)
(* equals C or ends with "." + C, or C has a leading '.' and P is longer   *)
(* than C and ends with C, all ignoring ASCII case.                        *)
(***************************************************************************)
EndsWith(P, S) ==
  Len(P) >= Len(S) /\ Lower(SubSeq(P, Len(P) - Len(S) + 1, Len(P))) = Lower(S)

ConstraintCovers(P, C) ==
  \/ C = <<>>
  \/ /\ C # <<>>
     /\ C[1] # ChDot
     /\ (Lower(P) = Lower(C) \/ EndsWith(P, <<ChDot>> \o C))
  \/ /\ C # <<>>
     /\ C[1] = ChDot
     /\ Len(P) > Len(C)
     /\ EndsWith(P, C)

C13_DNSNameConstraint ==
  (/\ DNSCallDone
   /\ args.referenceDNSIDMatchType = "NameConstraint"
   /\ IsValidPresentedDNSID(args.presentedDNSID)
   /\ ~IsWildcardID(args.presentedDNSID)) =>
     (ret <=> ConstraintCovers(args.presentedDNSID, args.referenceDNSID))

\* "bc.a" ends with "c.a", but not at a label boundary.
C13_Witness ==
  /\ DNSCallDone
  /\ args.referenceDNSIDMatchType = "NameConstraint"
  /\ args.presentedDNSID = <<98, 99, 46, 97>>
  /\ args.referenceDNSID = <<99, 46, 97>>
  /\ ret = FALSE


(***************************************************************************)
(* C14.  CheckNameConstraints returns Success exactly when every           *)
(* certificate of the chain, checked alone against the same constraints    *)
(* and key purpose, conforms; otherwise it returns the error of the first  *)
(* certificate in chain order that does not conform, whatever the later    *)
(* ones hold.                                                              *)
(***************************************************************************)
\* The Result for the i-th certificate of the chain checked alone.
ResultOfChild(i) ==
  CheckNameConstraints(encodedNameConstraints, <<args.chain[i]>>,
                       requiredEKUIfPresent).rv

NonConforming == {i \in 1..Len(args.chain) : ResultOfChild(i) # Success}

FirstNonConforming == CHOOSE i \in NonConforming : \A j \in NonConforming : i <= j

C14_ChainOrder ==
  NCCallDone =>
    /\ result = Success <=> NonConforming = {}
    /\ NonConforming # {} => result = ResultOfChild(FirstNonConforming)

\* A chain of two: the first certificate conforms and the second does not.
C14_Witness ==
  /\ NCCallDone
  /\ Len(args.chain) = 2
  /\ ResultOfChild(1) = Success
  /\ ResultOfChild(2) # Success
  /\ result = ResultOfChild(2)


(***************************************************************************)
(* C15 (as amended).  CheckNameConstraints reads the CN as a dNSName or    *)
(* IPv4 identifier only for an end-entity child and the serverAuth key     *)
(* purpose: when the constraints hold no directoryName entry, giving the   *)
(* CN attributes of the CA certificates, or of every certificate under     *)
(* another key purpose, other values leaves the result as it is.           *)
(***************************************************************************)
\* The subject with the values of its CN attributes exchanged: "a.b" for
\* "1.2.1.2" and every other value for "a.b".
OtherCNValues(subject) ==
  [i \in 1..Len(subject) |->
     [j \in 1..Len(subject[i]) |->
        IF subject[i][j].type = "commonName"
        THEN [subject[i][j] EXCEPT
                !.value = IF @ = Str_a_b THEN Str_1_2_1_2 ELSE Str_a_b]
        ELSE subject[i][j]]]

\* The chain with other CN values in the certificates that are CAs, or in all
\* of them when the key purpose is not serverAuth.
ChainWithOtherCNValues(chain, eku) ==
  [i \in 1..Len(chain) |->
     IF chain[i].endEntityOrCA = "MustBeEndEntity" /\ eku = "id_kp_serverAuth"
     THEN chain[i]
     ELSE [chain[i] EXCEPT !.subject = OtherCNValues(@)]]

ResultWithOtherCNValues ==
  CheckNameConstraints(encodedNameConstraints,
                       ChainWithOtherCNValues(args.chain, requiredEKUIfPresent),
                       requiredEKUIfPresent).rv

C15_CNOnlyForEndEntityServerAuth ==
  (/\ NCCallDone
   /\ PermittedOfType(encodedNameConstraints, "directoryName") = <<>>
   /\ ExcludedOfType(encodedNameConstraints, "directoryName") = <<>>) =>
     result = ResultWithOtherCNValues

\* C15 as stated: the content of those CN attributes never affects the result.
C15_CNContentNeverMatters ==
  NCCallDone => result = ResultWithOtherCNValues

\* A CA certificate whose CN is an excluded DNS name conforms under serverAuth.
C15_Witness ==
  /\ NCCallDone
  /\ encodedNameConstraints = Excluded(<<Subtree("dNSName", Str_a_b)>>)
  /\ requiredEKUIfPresent = "id_kp_serverAuth"
  /\ Len(args.chain) = 1
  /\ args.chain[1].endEntityOrCA = "MustBeCA"
  /\ ~args.chain[1].subjectAltName.present
  /\ args.chain[1].subject = <<<<CN("PrintableString", Str_a_b)>>>>
  /\ result = Success


(***************************************************************************)
(* C16.  An ERROR_BAD_DER raised while a presented identifier is checked   *)
(* against the name constraints is what CheckNameConstraints returns, also *)
(* when the identifier is the CN-ID of the fallback: stated here for the   *)
(* first child, whose checks before the fallback all pass.                 *)
(***************************************************************************)
\* The identifier the fallback reads from the most specific CN of the
\* subject: its GeneralName type and value, type "none" when there is none.
CNIdentifier(subject) ==
  LET cns == CommonNames(subject)
      last == cns[Len(cns)]
  IN IF cns = <<>> \/ LastCNIsNoIdentifier(subject)
     THEN [type |-> "none", value |-> <<>>]
     ELSE IF IsValidPresentedDNSID(last.value)
     THEN [type |-> "dNSName", value |-> last.value]
     ELSE [type |-> "iPAddress", value |-> ParseIPv4Address(last.value).out]

C16_DERFailuresSurface ==
  (/\ NCCallDone
   /\ ConstraintFallbackPerformed
   /\ CNIdentifier(cert.subject).type # "none"
   /\ CheckPresentedIDConformsToConstraints(
        CNIdentifier(cert.subject).type, CNIdentifier(cert.subject).value,
        encodedNameConstraints) = ERROR_BAD_DER) =>
     result = ERROR_BAD_DER


(***************************************************************************)
(* C17 (as amended).  CheckCertHostname never returns                      *)
(* FATAL_ERROR_LIBRARY_FAILURE.  CheckNameConstraints, given constraints   *)
(* that decode, returns it exactly when an rfc822Name entry of a           *)
(* certificate's subjectAltName is checked against constraints that hold   *)
(* an rfc822Name entry: the certificates before it conform and so do the   *)
(* entries before it.                                                      *)
(***************************************************************************)
HasEntryOfType(nc, type) ==
  PermittedOfType(nc, type) # <<>> \/ ExcludedOfType(nc, type) # <<>>

\* The k-th entry of the subjectAltName is an rfc822Name and is reached.
RFC822NameChecked(san, nc) ==
  san.present /\
  \E k \in 1..Len(san.names) :
    /\ san.names[k].tag = "rfc822Name"
    /\ \A j \in 1..(k - 1) :
         CheckPresentedIDConformsToConstraints(san.names[j].tag,
                                               san.names[j].value, nc) = Success

RFC822NameMeetsConstraint ==
  /\ HasEntryOfType(encodedNameConstraints, "rfc822Name")
  /\ \E i \in 1..Len(args.chain) :
       /\ \A j \in 1..(i - 1) : ResultOfChild(j) = Success
       /\ RFC822NameChecked(args.chain[i].subjectAltName, encodedNameConstraints)

C17_LibraryFailure ==
  /\ op = "CheckCertHostname" => result # FATAL_ERROR_LIBRARY_FAILURE
  /\ (NCCallDone /\ WellFormedNameConstraints(encodedNameConstraints)) =>
       (result = FATAL_ERROR_LIBRARY_FAILURE <=> RFC822NameMeetsConstraint)

\* C17 as stated: no call on well-formed inputs returns the fatal error.
C17_LibraryFailureUnreachable ==
  (/\ op \in {"CheckCertHostname", "CheckNameConstraints"}
   /\ NCCallDone => WellFormedNameConstraints(encodedNameConstraints)) =>
     result # FATAL_ERROR_LIBRARY_FAILURE

\* The second certificate of the chain holds the rfc822Name.
C17_Witness ==
  /\ NCCallDone
  /\ Len(args.chain) = 2
  /\ ResultOfChild(1) = Success
  /\ args.chain[2].subjectAltName.present
  /\ args.chain[2].subjectAltName.names[1].tag = "rfc822Name"
  /\ result = FATAL_ERROR_LIBRARY_FAILURE


(***************************************************************************)
(* C18.  A presented otherName, x400Address, ediPartyName,                 *)
(* uniformResourceIdentifier or registeredID that meets a subtree entry of *)
(* its own type, permitted or excluded, fails with                         *)
(* ERROR_CERT_NOT_IN_NAME_SPACE; a presented rfc822Name that meets an      *)
(* rfc822Name entry fails with FATAL_ERROR_LIBRARY_FAILURE; for a          *)
(* presented name of another type the entries of these six types are as if *)
(* they were not there.                                                    *)
(***************************************************************************)
TypesWithoutMatcher ==
  {"otherName", "x400Address", "ediPartyName", "uniformResourceIdentifier",
   "registeredID"}

\* The loop over the subtrees reads an entry of the type: the entries up to it
\* hold a GeneralName and nothing else.
ReachesEntryOfType(subtrees, type) ==
  \E i \in 1..Len(subtrees) :
    /\ subtrees[i].base.tag = type
    /\ \A j \in 1..i :
         subtrees[j].base.tag \in GeneralNameTypes /\ ~subtrees[j].hasMinMax

\* A presented name of one of the six types meets an entry of its type, in
\* permittedSubtrees or, these holding none, in excludedSubtrees.
MeetsEntryOfType(nc, type) ==
  \/ nc.hasPermitted /\ ReachesEntryOfType(nc.permitted, type)
  \/ /\ nc.hasPermitted =>
          (WellFormedSubtrees(nc.permitted) /\ PermittedOfType(nc, type) = <<>>)
     /\ nc.hasExcluded
     /\ ReachesEntryOfType(nc.excluded, type)

\* The constraints without the entries of the given types.
WithoutTypes(nc, types) ==
  NameConstraintsOf(
    IF nc.hasPermitted
    THEN SelectSeq(nc.permitted, LAMBDA st : st.base.tag \notin types) ELSE <<>>,
    IF nc.hasExcluded
    THEN SelectSeq(nc.excluded, LAMBDA st : st.base.tag \notin types) ELSE <<>>)

\* The Result without them; constraints that held such entries only are
\* constraints the name conforms to.
ResultWithoutTypes(type, id, nc, types) ==
  IF WithoutTypes(nc, types) = NameConstraintsOf(<<>>, <<>>) /\
     (nc.hasPermitted \/ nc.hasExcluded)
  THEN Success
  ELSE CheckPresentedIDConformsToConstraints(type, id, WithoutTypes(nc, types))

C18_TypesWithoutMatcher ==
  ConformDone =>
    /\ (args.presentedIDType \in TypesWithoutMatcher /\
        MeetsEntryOfType(args.encodedNameConstraints, args.presentedIDType))
         => ret = ERROR_CERT_NOT_IN_NAME_SPACE
    /\ (args.presentedIDType = "rfc822Name" /\
        MeetsEntryOfType(args.encodedNameConstraints, "rfc822Name"))
         => ret = FATAL_ERROR_LIBRARY_FAILURE
    /\ ret = ResultWithoutTypes(
               args.presentedIDType, args.presentedID, args.encodedNameConstraints,
               (TypesWithoutMatcher \cup {"rfc822Name"}) \ {args.presentedIDType})

\* A presented otherName and an excluded otherName entry.
C18_Witness ==
  /\ ConformDone
  /\ args.presentedIDType = "otherName"
  /\ args.encodedNameConstraints =
       NameConstraintsOf(<<>>, <<Subtree("otherName", Str_a_b)>>)
  /\ ret = ERROR_CERT_NOT_IN_NAME_SPACE


(***************************************************************************)
(* C20 (as amended).  A presented dNSName, iPAddress or directoryName      *)
(* conforms to constraints that decode when, among the entries of its      *)
(* type, permittedSubtrees holds none or one that matches and no           *)
(* excludedSubtrees entry matches, provided that every dNSName entry met   *)
(* by a presented dNSName is a valid DNS-ID for a name constraint; the     *)
(* result is the same with the entries in the reverse order.               *)
(***************************************************************************)
TypesWithMatcher == {"dNSName", "iPAddress", "directoryName"}

Reverse(seq) == [i \in 1..Len(seq) |-> seq[Len(seq) + 1 - i]]

ReversedConstraints(nc) ==
  [nc EXCEPT !.permitted = Reverse(@), !.excluded = Reverse(@)]

\* Every entry of the type is a valid DNS-ID in NameConstraint mode.
ValidDNSNameEntries(nc) ==
  /\ \A i \in 1..Len(PermittedOfType(nc, "dNSName")) :
       IsValidDNSID(PermittedOfType(nc, "dNSName")[i].base.value, "NameConstraint")
  /\ \A i \in 1..Len(ExcludedOfType(nc, "dNSName")) :
       IsValidDNSID(ExcludedOfType(nc, "dNSName")[i].base.value, "NameConstraint")

\* What C20 asks of the entries of the presented name's type.
AcceptedByOwnType(type, id, nc) ==
  /\ \/ PermittedOfType(nc, type) = <<>>
     \/ AnyMatches(PermittedOfType(nc, type), type, id, "permittedSubtrees")
  /\ ~AnyMatches(ExcludedOfType(nc, type), type, id, "excludedSubtrees")

C20_Acceptance ==
  (/\ ConformDone
   /\ args.presentedIDType \in TypesWithMatcher
   /\ WellFormedNameConstraints(args.encodedNameConstraints)) =>
     /\ (/\ AcceptedByOwnType(args.presentedIDType, args.presentedID,
                              args.encodedNameConstraints)
         /\ args.presentedIDType = "dNSName" =>
              ValidDNSNameEntries(args.encodedNameConstraints))
          => ret = Success
     /\ ret = CheckPresentedIDConformsToConstraints(
                args.presentedIDType, args.presentedID,
                ReversedConstraints(args.encodedNameConstraints))

\* C20 as stated: the entries that do not match have no part in the outcome.
C20_AcceptanceWhateverElse ==
  (/\ ConformDone
   /\ args.presentedIDType \in TypesWithMatcher
   /\ WellFormedNameConstraints(args.encodedNameConstraints)
   /\ AcceptedByOwnType(args.presentedIDType, args.presentedID,
                        args.encodedNameConstraints)) =>
     ret = Success

\* Two permitted dNSName entries: the first does not match, the second does.
C20_Witness ==
  /\ ConformDone
  /\ args.presentedIDType = "dNSName"
  /\ args.encodedNameConstraints =
       NameConstraintsOf(<<Subtree("dNSName", Str_b_a), Subtree("dNSName", Str_a_b)>>,
                         <<>>)
  /\ ret = Success


(***************************************************************************)
(* C19.  IsValidDNSID(s, M) accepts s exactly when s has at most 253       *)
(* bytes; is empty only for M = NameConstraint; has a first label "*" only *)
(* for M = PresentedID, at least two labels following it; has a leading    *)
(* dot only for M = NameConstraint and a trailing dot only for             *)
(* M = ReferenceID; every other label is 1 to 63 letters, digits and       *)
(* hyphens with no hyphen first or last; and the last of them is not all   *)
(* digits.                                                                 *)
(***************************************************************************)
RECURSIVE SplitAtDots(_)
SplitAtDots(s) ==
  IF \A k \in 1..Len(s) : s[k] # ChDot THEN <<s>>
  ELSE LET k == CHOOSE k \in 1..Len(s) :
                  s[k] = ChDot /\ \A j \in 1..(k - 1) : s[j] # ChDot
       IN <<SubSeq(s, 1, k - 1)>> \o SplitAtDots(SubSeq(s, k + 1, Len(s)))

LDHLabel(label) ==
  /\ Len(label) >= 1
  /\ Len(label) <= 63
  /\ \A k \in 1..Len(label) :
       \/ label[k] \in 97..122
       \/ label[k] \in 65..90
       \/ label[k] \in 48..57
       \/ label[k] = 45
  /\ label[1] # 45
  /\ label[Len(label)] # 45

AllDigits(label) == \A k \in 1..Len(label) : label[k] \in 48..57

WellFormedDNSID(s, M) ==
  /\ Len(s) <= 253
  /\ s = <<>> => M = "NameConstraint"
  /\ s # <<>> =>
       LET labels == SplitAtDots(s)
           n == Len(labels)
           wildcard == labels[1] = <<42>>
           leadingDot == n >= 2 /\ labels[1] = <<>>
           trailingDot == n >= 2 /\ labels[n] = <<>>
           first == IF wildcard \/ leadingDot THEN 2 ELSE 1
           last == IF trailingDot THEN n - 1 ELSE n
       IN /\ wildcard => (M = "PresentedID" /\ last - first + 1 >= 2)
          /\ leadingDot => M = "NameConstraint"
          /\ trailingDot => M = "ReferenceID"
          /\ first <= last
          /\ \A k \in first..last : LDHLabel(labels[k])
          /\ ~AllDigits(labels[last])

C19_ValidDNSID ==
  op = "IsValidDNSID" => (ret <=> WellFormedDNSID(args.hostname, args.matchType))

\* A wildcard with two labels after it is a valid presented ID.
C19_Witness ==
  /\ op = "IsValidDNSID"
  /\ args.hostname = <<42, 46, 97, 46, 97>>
  /\ args.matchType = "PresentedID"
  /\ ret = TRUE

(***************************************************************************)
(* C21.  Whenever PresentedDNSIDMatchesReferenceDNSID handles the "*" of a *)
(* presented ID, in ReferenceID mode and in NameConstraint mode alike, the *)
(* reference bytes consumed for the "*" are one non-empty label: they hold *)
(* no '.' byte of the reference, not even the leading '.' of a constraint. *)
(***************************************************************************)
\* The position of the presented reader after the switch on the match type,
\* 0 when the function has returned before the wildcard test.
PresentedPositionAfterSwitch(P, M, R) ==
  IF ~IsValidPresentedDNSID(P) \/ ~IsValidDNSID(R, M) THEN 0
  ELSE IF M = "ReferenceID" THEN 1
  ELSE IF M # "NameConstraint" THEN 0      \* PresentedID, default: return false
  ELSE IF Len(P) <= Len(R) THEN 1
  ELSE IF Len(R) = 0 THEN 0
  ELSE IF Peek(R, 1, ChDot) THEN Len(P) - Len(R) + 1
  ELSE IF P[Len(P) - Len(R)] # ChDot THEN 0
  ELSE Len(P) - Len(R) + 1

\* The wildcard loop has run to its end on the reference.
WildcardConsumed(P, M, R) ==
  /\ PresentedPositionAfterSwitch(P, M, R) # 0
  /\ Peek(P, PresentedPositionAfterSwitch(P, M, R), ChStar)
  /\ SkipWildcardLabel(R, 1) # 0

\* The reference bytes read by the wildcard loop.
ConsumedForWildcard(R) == SubSeq(R, 1, SkipWildcardLabel(R, 1) - 1)

C21_WildcardOneLabel ==
  (/\ DNSCallDone
   /\ WildcardConsumed(args.presentedDNSID, args.referenceDNSIDMatchType,
                       args.referenceDNSID)) =>
     /\ Len(ConsumedForWildcard(args.referenceDNSID)) > 0
     /\ \A i \in 1..Len(ConsumedForWildcard(args.referenceDNSID)) :
          ConsumedForWildcard(args.referenceDNSID)[i] # ChDot

(***************************************************************************)
(* C22.  Within one call of SearchNames the match result starts at         *)
(* NoNamesOfGivenType.  While the entries of the subjectAltName are        *)
(* iterated it only moves from NoNamesOfGivenType to Mismatch, or to       *)
(* Match, and a Match ends the search at once, so that no later entry and  *)
(* no CN is examined.  The only step backwards is the reset to             *)
(* NoNamesOfGivenType made for a commonName AVA during the CN fallback.    *)
(* When the reference is name constraints the result stays                 *)
(* NoNamesOfGivenType throughout the subjectAltName.                       *)
(***************************************************************************)
MatchRank(m) ==
  IF m = "NoNamesOfGivenType" THEN 0 ELSE IF m = "Mismatch" THEN 1 ELSE 2

InAltNames == op = "altNames"

MatchResultStep ==
  /\ op = "idle" => match' = "NoNamesOfGivenType"
  /\ InAltNames =>
       /\ match # "Match"
       /\ \/ match' = match
          \/ match = "NoNamesOfGivenType" /\ match' = "Mismatch"
          \/ match' = "Match"
       /\ match' = "Match" => op' = "returned"
       /\ args.referenceIDType = "nameConstraints" =>
            match' = "NoNamesOfGivenType"
  /\ op = "subject" => match' = match /\ match # "Match"
  /\ op = "returned" => UNCHANGED vars
  /\ (op # "idle" /\ MatchRank(match') < MatchRank(match)) =>
       /\ op = "ava"
       /\ op' = "cnValue"
       /\ cert.subject[args.i][args.j].type = "commonName"
       /\ match' = "NoNamesOfGivenType"

C22_MatchResultStateMachine == [][MatchResultStep]_vars

\* The CN of the first RDN matched the reference, and the CN of the second
\* RDN has reset the result.
C22_Witness ==
  /\ op = "cnValue"
  /\ args.referenceIDType = "dNSName"
  /\ args.i = 2
  /\ cert.subject[1] = <<CN("PrintableString", Str_a_b)>>
  /\ match = "NoNamesOfGivenType"

(***************************************************************************)
(* C24.  ParseIPv4Address accepts a string exactly when it is four decimal *)
(* components separated by single dots, each of 1 to 3 digits, of value 0  *)
(* to 255 and without a leading zero ("0" is accepted, "00" and "01" are   *)
(* not), with nothing before, between or after them; the output then holds *)
(* the four values in order.                                               *)
(***************************************************************************)
RECURSIVE DecimalValue(_)
DecimalValue(c) ==
  IF c = <<>> THEN 0
  ELSE 10 * DecimalValue(SubSeq(c, 1, Len(c) - 1)) + (c[Len(c)] - 48)

DecimalComponent(c) ==
  /\ Len(c) \in 1..3
  /\ \A i \in 1..Len(c) : c[i] \in 48..57
  /\ DecimalValue(c) <= 255
  /\ Len(c) > 1 => c[1] # 48

DottedQuad(s) ==
  /\ Len(SplitAtDots(s)) = 4
  /\ \A k \in 1..4 : DecimalComponent(SplitAtDots(s)[k])

DottedQuadBytes(s) == [k \in 1..4 |-> DecimalValue(SplitAtDots(s)[k])]

C24_ParseIPv4Address ==
  op = "ParseIPv4Address" =>
    /\ ret.ok <=> DottedQuad(args.hostname)
    /\ ret.ok => ret.out = DottedQuadBytes(args.hostname)

\* "0.255.0.255" is accepted.
C24_Witness ==
  /\ op = "ParseIPv4Address"
  /\ args.hostname = <<48, 46, 50, 53, 53, 46, 48, 46, 50, 53, 53>>
  /\ ret.ok
  /\ ret.out = <<0, 255, 0, 255>>

(***************************************************************************)
(* C23.  ParseIPv6Address accepts a string exactly when it is eight        *)
(* components of 1 to 4 hex digits separated by colons, or fewer           *)
(* components with exactly one "::" standing for at least one zero         *)
(* component, where the last two components may be written as one dotted   *)
(* quad; "::" alone, two contractions, more than eight components and a    *)
(* component of 5 digits are rejected.  The output is then the 16-byte     *)
(* big-endian address, the contraction filled with zeros and the           *)
(* components after it moved to the end.                                   *)
(***************************************************************************)
RECURSIVE SplitAtColons(_)
SplitAtColons(s) ==
  IF \A k \in 1..Len(s) : s[k] # 58 THEN <<s>>
  ELSE LET k == CHOOSE k \in 1..Len(s) :
                  s[k] = 58 /\ \A j \in 1..(k - 1) : s[j] # 58
       IN <<SubSeq(s, 1, k - 1)>> \o SplitAtColons(SubSeq(s, k + 1, Len(s)))

HexDigitValue(b) ==
  IF b \in 48..57 THEN b - 48
  ELSE IF b \in 97..102 THEN b - 87
  ELSE IF b \in 65..70 THEN b - 55
  ELSE -1

HexComponent(c) ==
  /\ Len(c) \in 1..4
  /\ \A i \in 1..Len(c) : HexDigitValue(c[i]) >= 0

RECURSIVE HexComponentValue(_)
HexComponentValue(c) ==
  IF c = <<>> THEN 0
  ELSE 16 * HexComponentValue(SubSeq(c, 1, Len(c) - 1)) + HexDigitValue(c[Len(c)])

\* The components written on one side of the contraction, <<>> for no text.
ComponentsOf(part) == IF part = <<>> THEN <<>> ELSE SplitAtColons(part)

WellFormedComponents(fields, quadAllowed) ==
  \A k \in 1..Len(fields) :
    \/ HexComponent(fields[k])
    \/ quadAllowed /\ k = Len(fields) /\ DottedQuad(fields[k])

RECURSIVE ComponentBytes(_)
ComponentBytes(fields) ==
  IF fields = <<>> THEN <<>>
  ELSE (IF HexComponent(fields[1])
        THEN <<HexComponentValue(fields[1]) \div 256,
               HexComponentValue(fields[1]) % 256>>
        ELSE DottedQuadBytes(fields[1])) \o ComponentBytes(Tail(fields))

Contractions(s) == {i \in 1..(Len(s) - 1) : s[i] = 58 /\ s[i + 1] = 58}

WellFormedUncontracted(s) ==
  /\ Contractions(s) = {}
  /\ WellFormedComponents(SplitAtColons(s), TRUE)
  /\ Len(ComponentBytes(SplitAtColons(s))) = 16

WellFormedContracted(s, left, right) ==
  /\ WellFormedComponents(left, FALSE)
  /\ WellFormedComponents(right, TRUE)
  /\ Len(ComponentBytes(left)) + Len(ComponentBytes(right)) <= 14
  /\ left # <<>> \/ right # <<>>

WellFormedIPv6(s) ==
  \/ WellFormedUncontracted(s)
  \/ \E i \in Contractions(s) :
       /\ Contractions(s) = {i}
       /\ WellFormedContracted(s, ComponentsOf(SubSeq(s, 1, i - 1)),
                               ComponentsOf(SubSeq(s, i + 2, Len(s))))

Zeros(n) == [k \in 1..n |-> 0]

IPv6Bytes16(s) ==
  IF Contractions(s) = {} THEN ComponentBytes(SplitAtColons(s))
  ELSE LET i == CHOOSE i \in Contractions(s) : TRUE
           left == ComponentBytes(ComponentsOf(SubSeq(s, 1, i - 1)))
           right == ComponentBytes(ComponentsOf(SubSeq(s, i + 2, Len(s))))
       IN left \o Zeros(16 - Len(left) - Len(right)) \o right

C23_ParseIPv6Address ==
  op = "ParseIPv6Address" =>
    /\ ret.ok <=> WellFormedIPv6(args.hostname)
    /\ ret.ok => ret.out = IPv6Bytes16(args.hostname)

\* "1F::1F:1.2.1.2" is accepted.
C23_Witness ==
  /\ op = "ParseIPv6Address"
  /\ args.hostname = <<49, 70, 58, 58, 49, 70, 58, 49, 46, 50, 46, 49, 46, 50>>
  /\ ret.ok
  /\ ret.out = <<0, 31, 0, 0, 0, 0, 0, 0, 0, 0, 0, 31, 1, 2, 1, 2>>

(***************************************************************************)
(* C28.  No byte string is accepted by more than one of                    *)
(* IsValidReferenceDNSID, ParseIPv6Address and ParseIPv4Address, so the    *)
(* order of the three tests in CheckCertHostname does not change the       *)
(* reference type and the fallback setting a hostname gets.                *)
(***************************************************************************)
AcceptedBy(h) ==
  {t \in {"IsValidReferenceDNSID", "ParseIPv6Address", "ParseIPv4Address"} :
     \/ t = "IsValidReferenceDNSID" /\ IsValidReferenceDNSID(h)
     \/ t = "ParseIPv6Address" /\ ParseIPv6Address(h).ok
     \/ t = "ParseIPv4Address" /\ ParseIPv4Address(h).ok}

C28_HostnameClassesDisjoint ==
  (op \in {"IsValidReferenceDNSID", "ParseIPv6Address", "ParseIPv4Address"}
   /\ ret.ok) => AcceptedBy(args.hostname) = {op}

\* "0.0.0.0" is an IPv4 address, and only that.
C28_Witness ==
  /\ op = "ParseIPv4Address"
  /\ args.hostname = <<48, 46, 48, 46, 48, 46, 48>>
  /\ ret.ok
  /\ AcceptedBy(args.hostname) = {"ParseIPv4Address"}

(***************************************************************************)
(* C30.  For every input of ParseIPv6Address each write stays inside the   *)
(* 16-byte output: a hex component is stored only at a component index of  *)
(* at most 7 and a dotted quad only at one of at most 6; and every call of *)
(* FinishIPv6Address meets its asserted preconditions,                     *)
(* 0 <= numComponents <= 8 and -1 <= contractionIndex <= numComponents,    *)
(* so that the ranges of its memmove and memset lie within the buffer.     *)
(***************************************************************************)
\* The bytes first..(first + length - 1) lie within uint8_t[16].
InBuffer(first, length) == first >= 0 /\ length >= 0 /\ first + length <= 16

FinishInBuffer(numComponents, contractionIndex) ==
  (contractionIndex # -1 /\ numComponents < 8) =>
    /\ InBuffer(2 * (8 - (numComponents - contractionIndex)),
                2 * (numComponents - contractionIndex))
    /\ InBuffer(2 * contractionIndex, 2 * (numComponents - contractionIndex))
    /\ InBuffer(2 * contractionIndex, 2 * (8 - numComponents))

SafeAccess(e) ==
  /\ e.kind = "store" => InBuffer(2 * e.componentIndex, 2)
  /\ e.kind = "ipv4" => InBuffer(2 * e.componentIndex, 4)
  /\ e.kind = "finish" =>
       /\ 0 <= e.numComponents /\ e.numComponents <= 8
       /\ -1 <= e.contractionIndex /\ e.contractionIndex <= e.numComponents
       /\ FinishInBuffer(e.numComponents, e.contractionIndex)

C30_ParseIPv6AddressMemorySafety ==
  op = "ParseIPv6Address" =>
    /\ \A k \in 1..Len(ParseIPv6AddressTrace(args.hostname)) :
         SafeAccess(ParseIPv6AddressTrace(args.hostname)[k])
    /\ ret.ok => Len(ParseIPv6AddressTrace(args.hostname)) > 0

\* Nine components: eight are stored, the ninth is refused.
C30_Witness ==
  /\ op = "ParseIPv6Address"
  /\ args.hostname = JoinWith([k \in 1..9 |-> <<49, 70>>], ChColon)
  /\ Len(ParseIPv6AddressTrace(args.hostname)) = 8
  /\ ParseIPv6AddressTrace(args.hostname)[8].componentIndex = 7
  /\ ~ret.ok

(***************************************************************************)
(* C25.  MatchPresentedIPAddressWithConstraint: a presented address whose  *)
(* length is neither 4 nor 16, or a constraint whose length is neither 8   *)
(* nor 32, gives ERROR_BAD_DER.  Otherwise the result is a match exactly   *)
(* when the presented length is half the constraint length and             *)
(* ((presented[i] XOR address[i]) AND mask[i]) = 0 for every byte i, the   *)
(* address being the first half of the constraint and the mask the second. *)
(* An IPv4 address never matches an IPv6 constraint, nor the reverse.      *)
(***************************************************************************)
\* The bits of a byte, least significant first.
Bits(x) == [k \in 1..8 |-> (x \div (2 ^ (k - 1))) % 2]

\* (p XOR a) AND m = 0: p and a agree on every bit that is set in m.
AgreeUnderMask(p, a, m) ==
  \A k \in 1..8 : Bits(m)[k] = 1 => Bits(p)[k] = Bits(a)[k]

AddressInSubnet(presented, constraint) ==
  /\ 2 * Len(presented) = Len(constraint)
  /\ \A i \in 1..Len(presented) :
       AgreeUnderMask(presented[i], constraint[i],
                      constraint[Len(presented) + i])

C25_IPAddressConstraint ==
  IPCallDone =>
    IF Len(args.presentedID) \notin {4, 16} \/
       Len(args.iPAddressConstraint) \notin {8, 32}
    THEN ret.rv = ERROR_BAD_DER
    ELSE /\ ret.rv = Success
         /\ ret.foundMatch <=>
              AddressInSubnet(args.presentedID, args.iPAddressConstraint)

\* An IPv4 address against an IPv6 constraint whose first bytes it meets.
C25_Witness ==
  /\ IPCallDone
  /\ Len(args.presentedID) = 4
  /\ Len(args.iPAddressConstraint) = 32
  /\ SubSeq(args.iPAddressConstraint, 1, 4) = args.presentedID
  /\ ret.rv = Success
  /\ ret.foundMatch = FALSE

(***************************************************************************)
(* C26.  A presented Name matches a permitted directoryName constraint     *)
(* exactly when the RDNs of the constraint are a prefix of the RDNs of the *)
(* Name, compared position by position by equality of their encoded        *)
(* values: an empty constraint matches every Name, and a Name with fewer   *)
(* RDNs than the constraint does not match.                                *)
(***************************************************************************)
RDNPrefix(constraintRDNs, presentedRDNs) ==
  /\ Len(constraintRDNs) <= Len(presentedRDNs)
  /\ \A i \in 1..Len(constraintRDNs) : constraintRDNs[i] = presentedRDNs[i]

C26_PermittedDirectoryName ==
  (/\ op = "MatchPresentedDirectoryNameWithConstraint"
   /\ args.subtreesType = "permittedSubtrees") =>
     /\ ret.rv = Success
     /\ ret.matches <=> RDNPrefix(args.directoryNameConstraint, args.presentedID)
     /\ args.directoryNameConstraint = <<>> => ret.matches
     /\ Len(args.presentedID) < Len(args.directoryNameConstraint) => ~ret.matches

\* A constraint of one RDN and a Name of two that starts with it.
C26_Witness ==
  /\ op = "MatchPresentedDirectoryNameWithConstraint"
  /\ args.subtreesType = "permittedSubtrees"
  /\ args.directoryNameConstraint = <<<<CN("PrintableString", Str_a_b)>>>>
  /\ args.presentedID =
       <<<<CN("PrintableString", Str_a_b)>>, <<CN("BMPString", Str_a_b)>>>>
  /\ ret.matches


(***************************************************************************)
(* Vocabulary of the claim about the structure of the constraints.         *)
(***************************************************************************)
\* Entry i of a subtree list does not decode: its base has an unknown tag
\* or something follows the base.
DefectAt(subtrees, i) ==
  subtrees[i].base.tag \notin GeneralNameTypes \/ subtrees[i].hasMinMax

\* The position in a present list at which reading fails: 1 in an empty
\* list, the first entry that does not decode, Len + 1 when all decode.
FirstDefect(subtrees) ==
  IF \E i \in 1..Len(subtrees) : DefectAt(subtrees, i)
  THEN CHOOSE i \in 1..Len(subtrees) :
         DefectAt(subtrees, i) /\ \A j \in 1..(i - 1) : ~DefectAt(subtrees, j)
  ELSE Len(subtrees) + 1

\* Entry i is of the presented name's type and ends the check: its matcher
\* fails, or it is an excluded entry that matches.
StopsAt(type, id, subtrees, subtreesType, i) ==
  /\ ~DefectAt(subtrees, i)
  /\ subtrees[i].base.tag = type
  /\ LET r == MatchPresentedIDWithConstraint(type, id, subtreesType,
                                             subtrees[i].base.value)
     IN r.rv # Success \/ (subtreesType = "excludedSubtrees" /\ r.matches)

StopsBefore(type, id, subtrees, subtreesType, d) ==
  \E i \in 1..(d - 1) : StopsAt(type, id, subtrees, subtreesType, i)

\* The permitted list has entries of the presented name's type and none of
\* them matches.
NoPermittedMatch(type, id, permitted) ==
  /\ \E i \in 1..Len(permitted) : permitted[i].base.tag = type
  /\ \A i \in 1..Len(permitted) :
       permitted[i].base.tag = type =>
         ~MatchPresentedIDWithConstraint(type, id, "permittedSubtrees",
                                         permitted[i].base.value).matches

\* The check of (type, id) ends with the result of an entry, or of the
\* permitted list, that is read before the first place where nc fails to
\* decode.
EndsBeforeDefect(type, id, nc) ==
  IF nc.hasPermitted /\ FirstDefect(nc.permitted) <= Len(nc.permitted)
  THEN StopsBefore(type, id, nc.permitted, "permittedSubtrees",
                   FirstDefect(nc.permitted))
  ELSE IF nc.hasPermitted /\ nc.permitted = <<>>
  THEN FALSE
  ELSE \/ /\ nc.hasPermitted
          /\ \/ StopsBefore(type, id, nc.permitted, "permittedSubtrees",
                            Len(nc.permitted) + 1)
             \/ NoPermittedMatch(type, id, nc.permitted)
       \/ /\ nc.hasExcluded
          /\ StopsBefore(type, id, nc.excluded, "excludedSubtrees",
                         FirstDefect(nc.excluded))

\* C27 as stated: constraints that do not decode always give ERROR_BAD_DER.
\* Violated: with the dNSName a.b presented, excludedSubtrees holding the
\* dNSName a.b followed by an entry with a minimum gives
\* ERROR_CERT_NOT_IN_NAME_SPACE, the first entry ending the check.
C27_MalformedAlwaysBadDER ==
  (ConformDone /\ ~WellFormedNameConstraints(args.encodedNameConstraints))
    => ret = ERROR_BAD_DER

\* C27 (amended): constraints that do not decode (empty SEQUENCE, empty
\* present subtree list, an entry of any type with a minimum or maximum or an
\* unknown base tag, trailing bytes) never give Success, and give
\* ERROR_BAD_DER unless an entry of the presented name's type, or the
\* permitted list as a whole, ends the check before the defect is read.
C27_StructuralStrictness ==
  (ConformDone /\ ~WellFormedNameConstraints(args.encodedNameConstraints))
    => /\ ret # Success
       /\ ~EndsBeforeDefect(args.presentedIDType, args.presentedID,
                            args.encodedNameConstraints)
            => ret = ERROR_BAD_DER

\* The dNSName a.b is permitted by a dNSName entry, and the rfc822Name entry
\* after it carries a minimum: ERROR_BAD_DER.
C27_Witness ==
  /\ ConformDone
  /\ args.presentedIDType = "dNSName"
  /\ args.encodedNameConstraints.hasPermitted
  /\ args.encodedNameConstraints.permitted =
       <<Subtree("dNSName", Str_a_b),
         [Subtree("rfc822Name", Str_a_b) EXCEPT !.hasMinMax = TRUE]>>
  /\ ~EndsBeforeDefect(args.presentedIDType, args.presentedID,
                       args.encodedNameConstraints)
  /\ ret = ERROR_BAD_DER


(***************************************************************************)
(* Vocabulary of the claim relating the two uses of a DNS-ID.              *)
(***************************************************************************)
\* The reference DNS-ID does not end with a dot.
RelativeDNSID(referenceDNSID) ==
  referenceDNSID = <<>> \/ referenceDNSID[Len(referenceDNSID)] # ChDot

\* excludedSubtrees holding the one dNSName base.
ExcludedDNSName(base) ==
  NameConstraintsOf(<<>>, <<Subtree("dNSName", base)>>)

\* C29: a presented DNS-ID that matches a relative reference DNS-ID in
\* ReferenceID mode also matches it in NameConstraint mode, and is rejected
\* with ERROR_CERT_NOT_IN_NAME_SPACE by an excluded dNSName constraint equal
\* to that reference DNS-ID.
C29_MatchImpliesConstraintMatch ==
  (/\ DNSCallDone
   /\ args.referenceDNSIDMatchType = "ReferenceID"
   /\ RelativeDNSID(args.referenceDNSID)
   /\ ret = TRUE)
    => /\ PresentedDNSIDMatchesReferenceDNSID(
            args.presentedDNSID, "NameConstraint", args.referenceDNSID)
       /\ CheckPresentedIDConformsToConstraints(
            "dNSName", args.presentedDNSID, ExcludedDNSName(args.referenceDNSID))
            = ERROR_CERT_NOT_IN_NAME_SPACE

\* "*.a.bc" matches the reference "A.a.bc", and matches it as a constraint.
C29_Witness ==
  /\ DNSCallDone
  /\ args.referenceDNSIDMatchType = "ReferenceID"
  /\ args.presentedDNSID = <<42, 46, 97, 46, 98, 99>>
  /\ args.referenceDNSID = <<65, 46, 97, 46, 98, 99>>
  /\ ret = TRUE
  /\ PresentedDNSIDMatchesReferenceDNSID(
       args.presentedDNSID, "NameConstraint", args.referenceDNSID)

=============================================================================
